---------------------------- MODULE Spec2Model ----------------------------
(***************************************************************************)
(* Verification model of the Sick LIDAR toolbox core: the binary-family    *)
(* (LMS 2xx) buffer monitor scan, the ASCII-family (LMS 1xx) message       *)
(* container, the single-slot message container shared between the buffer  *)
(* monitor thread and the driver, and the LMS 1xx driver's synchronous     *)
(* send/receive and lifecycle operations.                                  *)
(*                                                                         *)
(* Code that is part of the toolbox but not among the modelled sources     *)
(* (SickMessage, SickBufferMonitor, SickLIDAR, SickLMSMessage) is modelled *)
(* from the natural-language specification.                                *)
(***************************************************************************)
EXTENDS Integers, Sequences, FiniteSets, TLC

VARIABLES
    \* ---- binary-family buffer monitor (SickLMSBufferMonitor) ----
    stream,        \* bytes waiting in the transport, oldest first
    monState,      \* "Running" | "Cancelling" | "Stopped" | "Crashed"  (the monitor thread)
    mailbox,       \* the single-slot message container (a message record)
    lastScan,      \* outcome of the last GetNextMessageFromDataStream call
    wire,          \* history: the segments the transport delivered, in order
    pubLog,        \* history: payloads published to the mailbox, in order
    \* ---- ASCII-family message container (SickLMS1xxMessage) ----
    a_pc,          \* "init" | "built" | "parsed"
    a_payload,     \* the payload handed to BuildMessage
    a_built,       \* the message BuildMessage produced
    a_parsed,      \* the message ParseMessage produced from a_built's bytes
    \* ---- LMS 1xx request/reply (SickLMS1xx::_sendMessageAndGetReply) ----
    e_pc,          \* "idle" | "send" | "wait" | "done"
    e_call,        \* the call's arguments
    e_try,         \* index i of the current try (0-based)
    e_sends,       \* number of command frames written during the call
    e_elapsed,     \* polls elapsed in the current try
    e_exc,         \* "none" | "Timeout" | "IOException": how the call ended
    e_recv,        \* recv_message as the caller sees it after the call
    e_slot,        \* the message container polled by the call
    e_pubs,        \* frames published to the container during the call (counted)
    e_dropped,     \* frames taken from the container and discarded (counted)
    \* ---- message container hand-off at lock granularity ----
    mb_lock,       \* "free" | "monitor" | "reader"
    mb_slot,       \* [populated, hi, lo]: the container, written in two steps
    mb_mpc,        \* monitor: "scan" | "acquire" | "write1" | "write2" | "release"
    mb_mcur,       \* id of the frame the monitor is publishing
    mb_done,       \* id of the last frame whose publish completed
    mb_rpc,        \* reader: "idle" | "acquire" | "copy1" | "copy2" | "clear" | "release"
    mb_rmsg,       \* the reader's private copy
    mb_rlatest,    \* mb_done as it was when the reader took the lock
    mb_rlog,       \* ids the reader obtained, in order
    mb_waits,      \* polls the current _recvMessage call has made
    mb_rexc,       \* "none" | "Timeout": how the last _recvMessage ended
    \* ---- LMS 1xx driver lifecycle (SickLMS1xx) ----
    d_initialized, \* _sick_initialized
    d_streaming,   \* _sick_streaming
    d_fd,          \* "none" | "open" | "closed": the descriptor in _sick_fd
    d_openFds,     \* number of sockets created and not closed
    d_monitor,     \* buffer monitor thread running
    d_monitors,    \* number of monitor threads started and not stopped
    d_ops,         \* transport operations performed by the last call
    d_call,        \* name of the last public call
    d_exc,         \* how the last public call ended
    d_calls,       \* number of public calls made
    d_pre,         \* the driver's state, last call and its end when the last call began
    d_config,      \* _sick_scan_config: "unset", or the configuration last read from the device
    \* ---- LMS 1xx connection setup (SickLMS1xx::_setupConnection) ----
    c_setup,       \* the last _setupConnection call: what the system calls returned, how it ended
    \* ---- LMS 1xx stream request (SickLMS1xx::_requestDataStreamByType) ----
    q_req,         \* position, last device status, commands sent, end of the current request
    \* ---- LMS 1xx configuration commands (SickLMS1xx::_setSickScanConfig and others) ----
    k_cfg,         \* the cached scan configuration and the last configuration call
    \* ---- MATLAB bindings (lms1xxmex.cc, lmsmex.cc) ----
    m_mex,         \* the binding's globals, the driver objects alive, the last command
    \* ---- LMS 1xx measurement getters (SickLMS1xx::GetSickRange and others) ----
    g_get          \* the device's scan data format, the stream flag, the last getter call

codecVars  == <<a_pc, a_payload, a_built, a_parsed>>
monVars    == <<stream, monState, mailbox, lastScan, wire, pubLog>>
engineVars == <<e_pc, e_call, e_try, e_sends, e_elapsed, e_exc, e_recv, e_slot,
                e_pubs, e_dropped>>
mboxVars   == <<mb_lock, mb_slot, mb_mpc, mb_mcur, mb_done, mb_rpc, mb_rmsg,
                mb_rlatest, mb_rlog, mb_waits, mb_rexc>>
driverVars == <<d_initialized, d_streaming, d_fd, d_openFds, d_monitor, d_monitors,
                d_ops, d_call, d_exc, d_calls, d_pre, d_config>>
connVars   == <<c_setup>>
reqVars    == <<q_req>>
cfgVars    == <<k_cfg>>
mexVars    == <<m_mex>>
getVars    == <<g_get>>
vars == <<codecVars, monVars, engineVars, mboxVars, driverVars, connVars,
          reqVars, cfgVars, mexVars, getVars>>

\* What an action of one part of the program leaves alone: the other parts.
otherCodecVars   == <<monVars, engineVars, mboxVars, driverVars, connVars,
                     reqVars, cfgVars, mexVars, getVars>>
otherMonitorVars == <<codecVars, engineVars, mboxVars, driverVars, connVars,
                     reqVars, cfgVars, mexVars, getVars>>
otherEngineVars  == <<codecVars, monVars, mboxVars, driverVars, connVars,
                     reqVars, cfgVars, mexVars, getVars>>
otherMboxVars    == <<codecVars, monVars, engineVars, driverVars, connVars,
                     reqVars, cfgVars, mexVars, getVars>>
otherDriverVars  == <<codecVars, monVars, engineVars, mboxVars, connVars,
                     reqVars, cfgVars, mexVars, getVars>>
otherConnVars    == <<codecVars, monVars, engineVars, mboxVars, driverVars,
                     reqVars, cfgVars, mexVars, getVars>>
otherReqVars     == <<codecVars, monVars, engineVars, mboxVars, driverVars, connVars,
                     cfgVars, mexVars, getVars>>
otherCfgVars     == <<codecVars, monVars, engineVars, mboxVars, driverVars, connVars,
                     reqVars, mexVars, getVars>>
otherMexVars     == <<codecVars, monVars, engineVars, mboxVars, driverVars, connVars,
                     reqVars, cfgVars, getVars>>
otherGetVars     == <<codecVars, monVars, engineVars, mboxVars, driverVars, connVars,
                     reqVars, cfgVars, mexVars>>

---------------------------------------------------------------------------
(* Bounds of the model *)

\* Payload capacity of the binary-family message used in the model
\* (SickLMSMessage::MESSAGE_PAYLOAD_MAX_LENGTH, scaled down).
PayloadMaxLen == 2
\* Segments (frames or noise runs) the transport delivers in one behaviour.
MaxSegs == 2

---------------------------------------------------------------------------
(* Byte arithmetic *)

RECURSIVE BitXor(_, _, _)
BitXor(a, b, n) ==
    IF n = 0 THEN 0
    ELSE (((a % 2) + (b % 2)) % 2) + 2 * BitXor(a \div 2, b \div 2, n - 1)

Xor16(a, b) == BitXor(a, b, 16)
Xor8(a, b)  == BitXor(a, b, 8)

RECURSIVE Pow2(_)
Pow2(n) == IF n = 0 THEN 1 ELSE 2 * Pow2(n - 1)

Drop(s, n) == IF n >= Len(s) THEN <<>> ELSE SubSeq(s, n + 1, Len(s))
Take(s, n) == IF n >= Len(s) THEN s ELSE SubSeq(s, 1, n)

RECURSIVE SeqsUpTo(_, _)
SeqsUpTo(S, n) ==
    IF n = 0 THEN {<<>>}
    ELSE LET shorter == SeqsUpTo(S, n - 1)
         IN  shorter \cup {Append(q, b) : q \in shorter, b \in S}

RECURSIVE Rep(_, _)
Rep(b, n) == IF n = 0 THEN <<>> ELSE <<b>> \o Rep(b, n - 1)

---------------------------------------------------------------------------
(* Binary family (LMS 2xx): message container                              *)

STX == 2
DEFAULT_SICK_LMS_HOST_ADDRESS == 128
SICK_LMS_MSG_HEADER_LEN == 4
SICK_LMS_MSG_TRAILER_LEN == 2
CRC16_GEN_POL == 32773

MESSAGE_PAYLOAD_MAX_LENGTH == PayloadMaxLen
MESSAGE_MAX_LENGTH ==
    SICK_LMS_MSG_HEADER_LEN + MESSAGE_PAYLOAD_MAX_LENGTH + SICK_LMS_MSG_TRAILER_LEN

\* SickMessage::Clear(): an unpopulated container.
ClearedMessage ==
    [populated |-> FALSE, buffer |-> <<>>, message_length |-> 0,
     payload_length |-> 0, checksum |-> 0]

RECURSIVE CrcLoop(_, _, _, _)
CrcLoop(data, i, crc, prev) ==
    IF i > Len(data) THEN crc
    ELSE LET shifted == IF crc >= 32768
                        THEN Xor16((crc % 32768) * 2, CRC16_GEN_POL)
                        ELSE crc * 2
         IN  CrcLoop(data, i + 1, Xor16(shifted, data[i] + 256 * prev), data[i])

\* CRC16 of the binary family, over header and payload.
computeCRC(data) == CrcLoop(data, 1, 0, 0)

\* The two bytes of a 16-bit value in the family's (little-endian) byte order.
LE16Bytes(v) == <<v % 256, v \div 256>>

\* memcpy of two wire bytes into a uint16_t followed by
\* sick_lms_to_host_byte_order: the value the wire bytes stand for.
sick_lms_to_host_byte_order(buf) == buf[1] + 256 * buf[2]

\* SickLMSMessage::BuildMessage(dest_address, payload, payload_length).
LmsBuildMessage(dest, payload) ==
    LET head == <<STX, dest>> \o LE16Bytes(Len(payload)) \o payload
        crc  == computeCRC(head)
    IN  [populated |-> TRUE,
         buffer |-> head \o LE16Bytes(crc),
         message_length |-> Len(head) + SICK_LMS_MSG_TRAILER_LEN,
         payload_length |-> Len(payload),
         checksum |-> crc]

LmsPayload(msg) ==
    SubSeq(msg.buffer, SICK_LMS_MSG_HEADER_LEN + 1,
           SICK_LMS_MSG_HEADER_LEN + msg.payload_length)

---------------------------------------------------------------------------
(* Binary family: SickLMSBufferMonitor::GetNextMessageFromDataStream       *)

\* Line 59: the search window does not hold the message header yet.
HeaderNotFound(w0, w1) == w0 # STX \/ w1 # DEFAULT_SICK_LMS_HOST_ADDRESS

\* Line 68: the header search has gone on for too long.
HeaderSearchExpired(bytes_searched) ==
    bytes_searched > MESSAGE_MAX_LENGTH + SICK_LMS_MSG_HEADER_LEN

\* Line 85: the payload length read from the stream is accepted.
PayloadLengthLegitimate_Any(payload_length) == TRUE
PayloadLengthLegitimate(payload_length) == payload_length <= MESSAGE_MAX_LENGTH

\* Line 101: the computed CRC disagrees with the received one.
ChecksumMismatch_LowByteOnly(computed, received) == (computed % 256) # (received % 256)
ChecksumMismatch(computed, received) == computed # received

\* Lines 58-75: slide the two-byte window over the stream.  pos is the number
\* of bytes read so far; a read past the end of the stream is a byte timeout.
RECURSIVE HeaderSearch(_, _, _, _, _)
HeaderSearch(s, w0, w1, pos, bytes_searched) ==
    IF ~HeaderNotFound(w0, w1)
    THEN [kind |-> "found", pos |-> pos]
    ELSE IF pos + 1 > Len(s)
         THEN [kind |-> "ReadTimeout", pos |-> pos]
         ELSE IF HeaderSearchExpired(bytes_searched)
              THEN [kind |-> "HeaderTimeout", pos |-> pos + 1]
              ELSE HeaderSearch(s, w1, s[pos + 1], pos + 1, bytes_searched + 1)

\* The scan before anything has happened.  Fields: exc, the exception that
\* left the try block; msg, sick_message; consumed, bytes taken from the
\* stream; searched, bytes read by the header search; overrun, whether more
\* bytes were stored than payload_buffer holds; escaped, whether an exception
\* left the call; length, the payload length read from the stream (-1 when
\* the call did not get that far).
NoException ==
    [exc |-> "none", msg |-> ClearedMessage, consumed |-> 0, searched |-> 0,
     overrun |-> FALSE, escaped |-> FALSE, length |-> -1]

\* Lines 98-103: build the message from the payload read and compare its
\* checksum with the one received.
VerifyChecksum(found, consumed, payload_length, built, checksum) ==
    [found EXCEPT
        !.msg = built,
        !.consumed = consumed,
        !.overrun = (payload_length > MESSAGE_PAYLOAD_MAX_LENGTH),
        !.exc = IF ChecksumMismatch(built.checksum, checksum)
                THEN "BadChecksum" ELSE "none"]

\* Lines 88-95: read the payload into payload_buffer, then the checksum.
ReadPayloadAndChecksum_BuildPartial(s, found, p0, payload_length) ==
    IF p0 + payload_length + 2 > Len(s)
    THEN [found EXCEPT !.consumed = Len(s),
                       !.msg = LmsBuildMessage(DEFAULT_SICK_LMS_HOST_ADDRESS,
                                   Take(SubSeq(s, p0 + 1, Len(s)), payload_length))]
    ELSE VerifyChecksum(found, p0 + payload_length + 2, payload_length,
             LmsBuildMessage(DEFAULT_SICK_LMS_HOST_ADDRESS,
                             SubSeq(s, p0 + 1, p0 + payload_length)),
             sick_lms_to_host_byte_order(
                 SubSeq(s, p0 + payload_length + 1, p0 + payload_length + 2)))
ReadPayloadAndChecksum(s, found, p0, payload_length) ==
    IF p0 + payload_length + 2 > Len(s)
    THEN [found EXCEPT !.exc = "ReadTimeout", !.consumed = Len(s),
                       !.overrun = (Len(s) - p0 > MESSAGE_PAYLOAD_MAX_LENGTH
                                    /\ payload_length > MESSAGE_PAYLOAD_MAX_LENGTH)]
    ELSE VerifyChecksum(found, p0 + payload_length + 2, payload_length,
             LmsBuildMessage(DEFAULT_SICK_LMS_HOST_ADDRESS,
                             SubSeq(s, p0 + 1, p0 + payload_length)),
             sick_lms_to_host_byte_order(
                 SubSeq(s, p0 + payload_length + 1, p0 + payload_length + 2)))

\* Lines 85-105: a length that is not accepted ends the call with an
\* unpopulated message.
AcceptLength(s, found, p0, payload_length) ==
    IF ~PayloadLengthLegitimate(payload_length)
    THEN [found EXCEPT !.consumed = p0]
    ELSE ReadPayloadAndChecksum(s, found, p0, payload_length)

\* Lines 78-82: read the two length bytes that follow the header.
ReadLength(s, found, pos) ==
    IF pos + 2 > Len(s)
    THEN [found EXCEPT !.exc = "ReadTimeout", !.consumed = Len(s)]
    ELSE AcceptLength(s,
             [found EXCEPT !.length =
                 sick_lms_to_host_byte_order(SubSeq(s, pos + 1, pos + 2))],
             pos + 2,
             sick_lms_to_host_byte_order(SubSeq(s, pos + 1, pos + 2)))

\* Lines 58-78: what follows the header search.
AfterHeaderSearch(s, h) ==
    IF h.kind # "found"
    THEN [NoException EXCEPT !.exc = h.kind, !.consumed = h.pos, !.searched = h.pos]
    ELSE ReadLength(s, [NoException EXCEPT !.searched = h.pos], h.pos)

\* Lines 50-107: the body of the try block.  io is the transport's condition
\* during the call: "ok", "drain" (tcdrain fails) or "read" (a read fails hard).
ScanTry(s, io) ==
    IF io \in {"drain", "read"}
    THEN [NoException EXCEPT !.exc = "IOException"]
    ELSE AfterHeaderSearch(s, HeaderSearch(s, 0, 0, 0, 0))

\* Line 109: catch(SickTimeoutException &) { /* This is ok! */ }
CatchTimeout_Rethrow(r) == [r EXCEPT !.escaped = TRUE]
CatchTimeout(r) == [r EXCEPT !.escaped = FALSE]

\* Lines 112-114: a bad checksum clears the message container.
CatchBadChecksum_KeepMessage(r) == [r EXCEPT !.escaped = FALSE]
CatchBadChecksum(r) == [r EXCEPT !.escaped = FALSE, !.msg = ClearedMessage]

\* Lines 117-124: anything else is thrown on.
CatchIO_Absorb(r) == [r EXCEPT !.escaped = FALSE]
CatchIO(r) == [r EXCEPT !.escaped = TRUE]

\* Lines 108-124: the catch clauses.
CatchClauses(r) ==
    CASE r.exc \in {"ReadTimeout", "HeaderTimeout"} -> CatchTimeout(r)
      [] r.exc = "BadChecksum" -> CatchBadChecksum(r)
      [] r.exc = "IOException" -> CatchIO(r)
      [] OTHER -> r

\* Lines 42-126: the whole call.
GetNextMessageFromDataStream(s, io) == CatchClauses(ScanTry(s, io))

---------------------------------------------------------------------------
(* Binary family: the transport, the monitor thread and the caller         *)

SearchBound == MESSAGE_MAX_LENGTH + SICK_LMS_MSG_HEADER_LEN
NoiseByte == 255

\* Payloads of the valid frames the device sends in the model.
MonitorPayloads == {Take(<<65, 66, 67>>, PayloadMaxLen), <<>>}

\* Lengths of the noise runs between frames: short ones, and the lengths
\* around the header search bound.
NoiseLens == {1, SearchBound - 1, SearchBound, SearchBound + 1, SearchBound + 2}

\* What the transport can deliver: a valid frame, a run of noise bytes that
\* holds no start marker, a frame header announcing an oversized payload, or
\* the first len bytes of a valid frame (the start marker and less than the
\* rest), after which the line goes quiet.
Segments ==
    [kind : {"frame"}, payload : MonitorPayloads, len : {0}]
    \cup [kind : {"noise"}, payload : {<<>>}, len : NoiseLens]
    \cup [kind : {"oversize"}, payload : {<<>>},
          len : {MESSAGE_PAYLOAD_MAX_LENGTH + 1, MESSAGE_MAX_LENGTH + 1}]
    \cup UNION {[kind : {"partial"}, payload : {p},
                 len : {2, 3, SICK_LMS_MSG_HEADER_LEN,
                        SICK_LMS_MSG_HEADER_LEN + Len(p) + 1}] :
                    p \in MonitorPayloads}

SegmentBytes(seg) ==
    CASE seg.kind = "frame" ->
            LmsBuildMessage(DEFAULT_SICK_LMS_HOST_ADDRESS, seg.payload).buffer
      [] seg.kind = "noise" -> Rep(NoiseByte, seg.len)
      [] seg.kind = "oversize" ->
            <<STX, DEFAULT_SICK_LMS_HOST_ADDRESS>> \o LE16Bytes(seg.len)
      [] seg.kind = "partial" ->
            Take(LmsBuildMessage(DEFAULT_SICK_LMS_HOST_ADDRESS, seg.payload).buffer,
                 seg.len)
      [] seg.kind = "flipped" -> seg.bytes

\* The payload of the valid frame the stream starts with, if any.
HeadFrames(s) ==
    {p \in MonitorPayloads :
        LET b == LmsBuildMessage(DEFAULT_SICK_LMS_HOST_ADDRESS, p).buffer
        IN  Len(s) >= Len(b) /\ SubSeq(s, 1, Len(b)) = b}

\* A start marker (STX, host address) begins within the first n bytes of s.
HasMarker(s, n) ==
    \E i \in 1..n :
        i + 1 <= Len(s) /\ s[i] = STX /\ s[i + 1] = DEFAULT_SICK_LMS_HOST_ADDRESS

NoScan ==
    [exc |-> "none", msg |-> ClearedMessage, consumed |-> 0, searched |-> 0,
     overrun |-> FALSE, escaped |-> FALSE,
     count |-> 0, io |-> "ok", head |-> {}, noMarker |-> FALSE, avail |-> 0,
     published |-> FALSE, timedOutBefore |-> FALSE, markerRead |-> FALSE,
     length |-> -1]

\* The device puts one more segment on the wire.
Arrive(seg) ==
    /\ Len(wire) < MaxSegs
    /\ wire' = Append(wire, seg)
    /\ stream' = stream \o SegmentBytes(seg)
    /\ UNCHANGED <<monState, mailbox, lastScan, pubLog>>
    /\ UNCHANGED otherMonitorVars

\* The byte b with bit k inverted.
FlipBit(b, k) == Xor8(b, Pow2(k))

\* Bytes the payloads of the damaged frames are made of.
CodecBytes == {0, STX, DEFAULT_SICK_LMS_HOST_ADDRESS, NoiseByte}
CodecPayloads == SeqsUpTo(CodecBytes, PayloadMaxLen)

\* The device sends a valid frame and the line inverts bit k of its byte i, a
\* byte of the payload or of the checksum.
ArriveFlipped(payload, i, k) ==
    /\ wire = <<>>
    /\ i > SICK_LMS_MSG_HEADER_LEN
    /\ i <= SICK_LMS_MSG_HEADER_LEN + Len(payload) + SICK_LMS_MSG_TRAILER_LEN
    /\ \E good \in {LmsBuildMessage(DEFAULT_SICK_LMS_HOST_ADDRESS, payload).buffer} :
         \E bad \in {[good EXCEPT ![i] = FlipBit(@, k)]} :
            /\ wire' = <<[kind |-> "flipped", payload |-> payload, len |-> i,
                           bytes |-> bad]>>
            /\ stream' = bad
    /\ UNCHANGED <<monState, mailbox, lastScan, pubLog>>
    /\ UNCHANGED otherMonitorVars

\* The monitor thread's reaction to the outcome of one scan: a fatal error
\* stops it, a populated message replaces the mailbox contents, anything
\* else leaves the mailbox alone.
ThreadStops(r) == r.escaped
ThreadPublishes(r) == ~r.escaped /\ r.msg.populated

\* One iteration of the monitor thread: a whole GetNextMessageFromDataStream
\* call and the publish step that follows it.
MonitorIterate(io) ==
    /\ monState = "Running"
    /\ \E r \in {GetNextMessageFromDataStream(stream, io)} :
       /\ ~r.overrun
       /\ stream' = Drop(stream, r.consumed)
       /\ monState' = IF ThreadStops(r) THEN "Stopped" ELSE "Running"
       /\ mailbox' = IF ThreadPublishes(r) THEN r.msg ELSE mailbox
       /\ pubLog' = IF ThreadPublishes(r) THEN Append(pubLog, LmsPayload(r.msg))
                    ELSE pubLog
       /\ lastScan' = [exc |-> r.exc, msg |-> r.msg, consumed |-> r.consumed,
                       searched |-> r.searched, overrun |-> r.overrun,
                       escaped |-> r.escaped,
                       count |-> IF lastScan.count < 2 THEN lastScan.count + 1 ELSE 2,
                       io |-> io,
                       head |-> HeadFrames(stream),
                       markerRead |-> HasMarker(stream, r.searched - 1),
                       length |-> r.length,
                       noMarker |-> ~HasMarker(stream, SearchBound),
                       avail |-> Len(stream),
                       published |-> ThreadPublishes(r),
                       timedOutBefore |-> lastScan.timedOutBefore
                                          \/ lastScan.exc = "HeaderTimeout"]
    /\ UNCHANGED wire
    /\ UNCHANGED otherMonitorVars

\* A scan that stored more payload bytes than payload_buffer holds has
\* written past the end of the array: the iteration may go on as if the
\* array were large enough, or the thread may die.
MonitorOverrun(crash) ==
    /\ monState = "Running"
    /\ \E r \in {GetNextMessageFromDataStream(stream, "ok")} :
       /\ r.overrun
       /\ stream' = Drop(stream, r.consumed)
       /\ monState' = IF crash THEN "Crashed" ELSE "Running"
       /\ mailbox' = IF ~crash /\ ThreadPublishes(r) THEN r.msg ELSE mailbox
       /\ pubLog' = IF ~crash /\ ThreadPublishes(r)
                    THEN Append(pubLog, LmsPayload(r.msg)) ELSE pubLog
       /\ lastScan' = [exc |-> r.exc, msg |-> r.msg, consumed |-> r.consumed,
                       searched |-> r.searched, overrun |-> TRUE,
                       escaped |-> r.escaped,
                       count |-> IF lastScan.count < 2 THEN lastScan.count + 1 ELSE 2,
                       io |-> "ok",
                       head |-> HeadFrames(stream),
                       markerRead |-> HasMarker(stream, r.searched - 1),
                       length |-> r.length,
                       noMarker |-> ~HasMarker(stream, SearchBound),
                       avail |-> Len(stream),
                       published |-> ~crash /\ ThreadPublishes(r),
                       timedOutBefore |-> lastScan.timedOutBefore
                                          \/ lastScan.exc = "HeaderTimeout"]
    /\ UNCHANGED wire
    /\ UNCHANGED otherMonitorVars

---------------------------------------------------------------------------
(* ASCII family (LMS 1xx): SickLMS1xxMessage                               *)

SICK_LMS_1XX_MSG_HEADER_LEN == 8
SICK_LMS_1XX_MSG_TRAILER_LEN == 1
ETX == 3

\* Longest payload the model hands to BuildMessage.
AsciiMaxLen == 3
AsciiBytes == {115, 82, 78, 32}

AsciiPayloads == SeqsUpTo(AsciiBytes, AsciiMaxLen)

\* SickMessage<...>::Clear() for the LMS 1xx instantiation.
Lms1xxCleared ==
    [populated |-> FALSE, buffer |-> <<>>, message_length |-> 0, payload_length |-> 0]

\* SickMessage<...>::BuildMessage: resets the object, assigns _message_length,
\* _payload_length and _populated, and copies the payload behind the header.
SickMessageBuildMessage(payload) ==
    [populated |-> TRUE,
     buffer |-> Rep(0, SICK_LMS_1XX_MSG_HEADER_LEN) \o payload
                \o Rep(0, SICK_LMS_1XX_MSG_TRAILER_LEN),
     message_length |-> SICK_LMS_1XX_MSG_HEADER_LEN + Len(payload)
                        + SICK_LMS_1XX_MSG_TRAILER_LEN,
     payload_length |-> Len(payload)]

\* SickMessage<...>::ParseMessage: resets the object and assigns _populated.
SickMessageParseMessage(message_buffer) ==
    [Lms1xxCleared EXCEPT !.populated = TRUE]

\* SickLMS1xxMessage::BuildMessage
Lms1xxBuildMessage(payload) ==
    LET m == SickMessageBuildMessage(payload) IN
    [m EXCEPT !.buffer = [m.buffer EXCEPT ![1] = STX, ![m.message_length] = ETX]]

\* SickLMS1xxMessage::ParseMessage: the parent's method and nothing more
\* (the length and copy statements are commented out).
Lms1xxParseMessage(message_buffer) == SickMessageParseMessage(message_buffer)

\* SickMessage<...>::GetPayload: payload_length bytes from behind the header.
Lms1xxPayload(msg) ==
    IF msg.payload_length = 0 THEN <<>>
    ELSE SubSeq(msg.buffer, SICK_LMS_1XX_MSG_HEADER_LEN + 1,
                SICK_LMS_1XX_MSG_HEADER_LEN + msg.payload_length)

\* SickLMS1xxMessage::GetChecksum(): the last byte of the message (the
\* trailer); nothing when the container holds no bytes.
Lms1xxGetChecksum(msg) ==
    IF msg.message_length = 0 THEN <<>> ELSE <<msg.buffer[msg.message_length]>>

\* SickLMS1xxMessage send_message(payload_buffer, payload_length)
AsciiBuild(payload) ==
    /\ a_pc = "init"
    /\ a_payload' = payload
    /\ a_built' = Lms1xxBuildMessage(payload)
    /\ a_pc' = "built"
    /\ UNCHANGED a_parsed
    /\ UNCHANGED otherCodecVars

\* SickLMS1xxMessage parsed(message_buffer) on the bytes just built
AsciiParse ==
    /\ a_pc = "built"
    /\ a_parsed' = Lms1xxParseMessage(a_built.buffer)
    /\ a_pc' = "parsed"
    /\ UNCHANGED <<a_payload, a_built>>
    /\ UNCHANGED otherCodecVars

---------------------------------------------------------------------------
(* LMS 1xx request/reply: SickLMS1xx::_sendMessageAndGetReply              *)

\* Most tries a call asks for.
MaxTries == 3
\* Polls of the message container that fit in one try's timeout.
TimeoutPolls == 2
\* The frames published and dropped while one call is in progress are counted
\* up to this number; the monitor may publish more.
MaxPubs == 3

SP == " "
sRA == <<"s", "R", "A">>
sAN == <<"s", "A", "N">>
sSN == <<"s", "S", "N">>
STlms == <<"S", "T", "l", "m", "s">>
STlmsX == <<"S", "T", "l", "m", "s", "X">>
LMPscancfg == <<"L", "M", "P", "s", "c", "a", "n", "c", "f", "g">>
LMDscandata == <<"L", "M", "D", "s", "c", "a", "n", "d", "a", "t", "a">>

\* Reply signatures the driver waits for (lines 1008, 1079, 1921).
Signatures ==
    {[type |-> sRA, cmd |-> STlms],
     [type |-> sRA, cmd |-> LMPscancfg],
     [type |-> sSN, cmd |-> LMDscandata]}

EmptyFrame == [populated |-> FALSE, payload |-> <<>>]
Frame(payload) == [populated |-> TRUE, payload |-> payload]

\* Frames the monitor may publish: replies, a streaming-data frame, and
\* frames that share only the type, only the name, or only a prefix of the
\* name with a signature.
DeviceFrames ==
    {Frame(sRA \o <<SP>> \o STlms \o <<SP, "7">>),
     Frame(sRA \o <<SP>> \o LMPscancfg \o <<SP, "1">>),
     Frame(sSN \o <<SP>> \o LMDscandata \o <<SP, "1">>),
     Frame(sAN \o <<SP>> \o STlms),
     Frame(sRA \o <<SP>> \o STlmsX),
     Frame(sRA)}

\* The space-separated tokens of a character sequence.
\* The first space of s at or after position i, or the position after s.
NextSpace(s, i) ==
    IF \E j \in i..Len(s) : s[j] = SP
    THEN CHOOSE j \in i..Len(s) : s[j] = SP /\ \A k \in i..(j - 1) : s[k] # SP
    ELSE Len(s) + 1

\* The tokens of s from position i on.
RECURSIVE TokensFrom(_, _)
TokensFrom(s, i) ==
    IF i > Len(s) THEN <<>>
    ELSE CHOOSE t \in {<<SubSeq(s, i, cut - 1)>> \o TokensFrom(s, cut + 1) :
                          cut \in {NextSpace(s, i)}} : TRUE

Tokens(s) == TokensFrom(s, 1)

\* Line 2358: std::string expected_str = reply_command_type + " " + reply_command;
expected_str_TypeOnly(reply_command_type, reply_command) == reply_command_type
expected_str(reply_command_type, reply_command) ==
    reply_command_type \o <<SP>> \o reply_command

\* Lines 2367-2382: every exception of the parent's method is thrown on.
sendMessageAndGetReply_catch_Swallow(exc) == IF exc = "Timeout" THEN "none" ELSE exc
sendMessageAndGetReply_catch(exc) == exc

\* SickLIDAR::_recvMessage with a byte sequence: the frame's leading tokens
\* are those of the expected signature.
MatchesSignature(frame, expected) ==
    LET te == Tokens(expected)
        tp == Tokens(frame.payload)
    IN  Len(tp) >= Len(te) /\ SubSeq(tp, 1, Len(te)) = te

\* The caller enters _sendMessageAndGetReply.
EngineCall(sig, n) ==
    /\ e_pc \in {"idle", "done"}
    /\ e_call' = [type |-> sig.type, cmd |-> sig.cmd,
                  expected |-> expected_str(sig.type, sig.cmd), num_tries |-> n]
    /\ e_try' = 0
    /\ e_sends' = 0
    /\ e_elapsed' = 0
    /\ e_exc' = "none"
    /\ e_recv' = EmptyFrame
    /\ e_pubs' = IF e_slot.populated THEN 1 ELSE 0
    /\ e_dropped' = 0
    /\ e_pc' = "send"
    /\ UNCHANGED e_slot
    /\ UNCHANGED otherEngineVars

\* SickLIDAR::_sendMessage: the command frame is written, or the write fails.
EngineSend(ok) ==
    /\ e_pc = "send"
    /\ IF ok
       THEN /\ e_sends' = e_sends + 1
            /\ e_elapsed' = 0
            /\ e_pc' = "wait"
            /\ UNCHANGED e_exc
       ELSE /\ e_exc' = sendMessageAndGetReply_catch("IOException")
            /\ e_pc' = "done"
            /\ UNCHANGED <<e_sends, e_elapsed>>
    /\ UNCHANGED <<e_call, e_try, e_recv, e_slot, e_pubs, e_dropped>>
    /\ UNCHANGED otherEngineVars

\* The time the current try has used after one more round of the wait loop:
\* it is measured from the send, whatever the container held in between.
ElapsedAfterPoll_RestartOnFrame(elapsed, gotFrame) ==
    IF gotFrame THEN 0 ELSE elapsed + 1
ElapsedAfterPoll(elapsed, gotFrame) ==
    elapsed + 1

\* One round of the wait loop: take the message out of the container if
\* there is one and return it if it matches; otherwise sleep, and when the
\* try's time is up send again or give up.
EnginePoll ==
    /\ e_pc = "wait"
    /\ e_slot' = EmptyFrame
    /\ IF e_slot.populated /\ MatchesSignature(e_slot, e_call.expected)
       THEN /\ e_recv' = e_slot
            /\ e_exc' = sendMessageAndGetReply_catch("none")
            /\ e_pc' = "done"
            /\ UNCHANGED <<e_try, e_elapsed, e_dropped>>
       ELSE /\ e_dropped' = IF e_slot.populated /\ e_dropped <= MaxPubs
                            THEN e_dropped + 1 ELSE e_dropped
            /\ IF ElapsedAfterPoll(e_elapsed, e_slot.populated) > TimeoutPolls
               THEN IF e_try = e_call.num_tries - 1
                    THEN /\ e_exc' = sendMessageAndGetReply_catch("Timeout")
                         /\ e_pc' = "done"
                         /\ UNCHANGED <<e_try, e_elapsed, e_recv>>
                    ELSE /\ e_try' = e_try + 1
                         /\ e_pc' = "send"
                         /\ UNCHANGED <<e_elapsed, e_exc, e_recv>>
               ELSE /\ e_elapsed' = ElapsedAfterPoll(e_elapsed, e_slot.populated)
                    /\ UNCHANGED <<e_try, e_pc, e_exc, e_recv>>
    /\ UNCHANGED <<e_call, e_sends, e_pubs>>
    /\ UNCHANGED otherEngineVars

\* The buffer monitor publishes a frame, replacing what the container held.
EnginePublish(f) ==
    /\ e_slot' = f
    /\ e_pubs' = IF e_pc \in {"send", "wait"} /\ e_pubs < MaxPubs
                 THEN e_pubs + 1 ELSE e_pubs
    /\ UNCHANGED <<e_pc, e_call, e_try, e_sends, e_elapsed, e_exc, e_recv, e_dropped>>
    /\ UNCHANGED otherEngineVars

---------------------------------------------------------------------------
(* The message container shared by the monitor thread and the driver      *)

\* Frames the monitor completes in one behaviour.
MaxFrames == 3
\* Polls of the container that fit in _recvMessage's timeout.
RecvPolls == 1

MbEmpty == [populated |-> FALSE, hi |-> 0, lo |-> 0]

\* The container's mutex can be taken.
LockFree_Ignored(lock) == TRUE
LockFree(lock) == lock = "free"

\* The publish step stores the new frame whatever the container holds.
StoreFirstHalf_KeepOld(slot, id) ==
    IF slot.populated THEN slot ELSE [populated |-> TRUE, hi |-> id, lo |-> slot.lo]
StoreFirstHalf(slot, id) == [populated |-> TRUE, hi |-> id, lo |-> slot.lo]
StoreSecondHalf(slot, id) ==
    IF slot.hi = id THEN [slot EXCEPT !.lo = id] ELSE slot

\* Lines 2400-2409: _recvMessage throws the parent's exceptions on.
recvMessage_catch_Swallow(exc) == "none"
recvMessage_catch(exc) == exc

\* The monitor's scan completes one more frame.
MbFrameComplete ==
    /\ mb_mpc = "scan"
    /\ mb_mcur < MaxFrames
    /\ mb_mcur' = mb_mcur + 1
    /\ mb_mpc' = "acquire"
    /\ UNCHANGED <<mb_lock, mb_slot, mb_done, mb_rpc, mb_rmsg, mb_rlatest, mb_rlog,
                   mb_waits, mb_rexc>>
    /\ UNCHANGED otherMboxVars

MbMonitorAcquire ==
    /\ mb_mpc = "acquire"
    /\ LockFree(mb_lock)
    /\ mb_lock' = "monitor"
    /\ mb_mpc' = "write1"
    /\ UNCHANGED <<mb_slot, mb_mcur, mb_done, mb_rpc, mb_rmsg, mb_rlatest, mb_rlog,
                   mb_waits, mb_rexc>>
    /\ UNCHANGED otherMboxVars

MbMonitorWrite1 ==
    /\ mb_mpc = "write1"
    /\ mb_slot' = StoreFirstHalf(mb_slot, mb_mcur)
    /\ mb_mpc' = "write2"
    /\ UNCHANGED <<mb_lock, mb_mcur, mb_done, mb_rpc, mb_rmsg, mb_rlatest, mb_rlog,
                   mb_waits, mb_rexc>>
    /\ UNCHANGED otherMboxVars

MbMonitorWrite2 ==
    /\ mb_mpc = "write2"
    /\ mb_slot' = StoreSecondHalf(mb_slot, mb_mcur)
    /\ mb_mpc' = "release"
    /\ UNCHANGED <<mb_lock, mb_mcur, mb_done, mb_rpc, mb_rmsg, mb_rlatest, mb_rlog,
                   mb_waits, mb_rexc>>
    /\ UNCHANGED otherMboxVars

MbMonitorRelease ==
    /\ mb_mpc = "release"
    /\ mb_lock' = IF mb_lock = "monitor" THEN "free" ELSE mb_lock
    /\ mb_done' = mb_mcur
    /\ mb_mpc' = "scan"
    /\ UNCHANGED <<mb_slot, mb_mcur, mb_rpc, mb_rmsg, mb_rlatest, mb_rlog,
                   mb_waits, mb_rexc>>
    /\ UNCHANGED otherMboxVars

\* SickLMS1xx::_recvMessage is entered.
MbRecvCall ==
    /\ mb_rpc = "idle"
    /\ mb_rpc' = "acquire"
    /\ mb_rmsg' = MbEmpty
    /\ mb_waits' = 0
    /\ mb_rexc' = "none"
    /\ UNCHANGED <<mb_lock, mb_slot, mb_mpc, mb_mcur, mb_done, mb_rlatest, mb_rlog>>
    /\ UNCHANGED otherMboxVars

\* GetNextMessage takes the lock and looks at the container.
MbReaderAcquire ==
    /\ mb_rpc = "acquire"
    /\ LockFree(mb_lock)
    /\ mb_lock' = "reader"
    /\ mb_rlatest' = mb_done
    /\ mb_rpc' = IF mb_slot.populated THEN "copy1" ELSE "release"
    /\ UNCHANGED <<mb_slot, mb_mpc, mb_mcur, mb_done, mb_rmsg, mb_rlog, mb_waits,
                   mb_rexc>>
    /\ UNCHANGED otherMboxVars

MbReaderCopy1 ==
    /\ mb_rpc = "copy1"
    /\ mb_rmsg' = [populated |-> TRUE, hi |-> mb_slot.hi, lo |-> 0]
    /\ mb_rpc' = "copy2"
    /\ UNCHANGED <<mb_lock, mb_slot, mb_mpc, mb_mcur, mb_done, mb_rlatest, mb_rlog,
                   mb_waits, mb_rexc>>
    /\ UNCHANGED otherMboxVars

MbReaderCopy2 ==
    /\ mb_rpc = "copy2"
    /\ mb_rmsg' = [mb_rmsg EXCEPT !.lo = mb_slot.lo]
    /\ mb_rpc' = "clear"
    /\ UNCHANGED <<mb_lock, mb_slot, mb_mpc, mb_mcur, mb_done, mb_rlatest, mb_rlog,
                   mb_waits, mb_rexc>>
    /\ UNCHANGED otherMboxVars

MbReaderClear ==
    /\ mb_rpc = "clear"
    /\ mb_slot' = MbEmpty
    /\ mb_rpc' = "release"
    /\ UNCHANGED <<mb_lock, mb_mpc, mb_mcur, mb_done, mb_rmsg, mb_rlatest, mb_rlog,
                   mb_waits, mb_rexc>>
    /\ UNCHANGED otherMboxVars

\* GetNextMessage releases the lock; _recvMessage returns the message, or
\* sleeps and looks again, or gives up when its one timeout has run out.
MbReaderRelease ==
    /\ mb_rpc = "release"
    /\ mb_lock' = IF mb_lock = "reader" THEN "free" ELSE mb_lock
    /\ IF mb_rmsg.populated
       THEN /\ mb_rlog' = Append(mb_rlog, mb_rmsg.hi)
            /\ mb_rexc' = recvMessage_catch("none")
            /\ mb_rpc' = "idle"
            /\ UNCHANGED mb_waits
       ELSE IF mb_waits + 1 > RecvPolls
            THEN /\ mb_rexc' = recvMessage_catch("Timeout")
                 /\ mb_rpc' = "idle"
                 /\ UNCHANGED <<mb_rlog, mb_waits>>
            ELSE /\ mb_waits' = mb_waits + 1
                 /\ mb_rpc' = "acquire"
                 /\ UNCHANGED <<mb_rlog, mb_rexc>>
    /\ UNCHANGED <<mb_slot, mb_mpc, mb_mcur, mb_done, mb_rmsg, mb_rlatest>>
    /\ UNCHANGED otherMboxVars

---------------------------------------------------------------------------
(* LMS 1xx driver lifecycle: Initialize, Uninitialize, GetSickRange        *)

\* Public calls made on the driver object in one behaviour.
MaxCalls == 4

DriverSnapshot ==
    [initialized |-> d_initialized, streaming |-> d_streaming, fd |-> d_fd,
     openFds |-> d_openFds, monitor |-> d_monitor, monitors |-> d_monitors,
     call |-> d_call, exc |-> d_exc, config |-> d_config]

\* Where Initialize can fail: socket(), connect() (error or select timeout),
\* the monitor thread's start, the scan-config query (reply timeout, write
\* error, unparsable reply); or nowhere.
InitializeOutcomes ==
    {"socket", "connect", "connectTimeout", "thread", "queryTimeout", "queryIO",
     "parse", "ok"}

InitializeException(o) ==
    CASE o \in {"socket", "connect", "queryIO", "parse"} -> "IOException"
      [] o \in {"connectTimeout", "queryTimeout"} -> "TimeoutException"
      [] o = "thread" -> "ThreadException"
      [] OTHER -> "none"

\* Lines 860-962: _setupConnection() got as far as creating the socket.
SocketCreated(o) == o # "socket"
\* Lines 875-944: the connection was established.
Connected(o) == o \notin {"socket", "connect", "connectTimeout"}
\* Line 82: _startListening() succeeded.
Listening_Unconnected(o) == o # "thread"
Listening(o) == Connected(o) /\ o # "thread"

\* Lines 69-118.  The flag is assigned after the try block, which every
\* exception leaves by a rethrow.
InitializeSetsFlag_Always(o) == TRUE
InitializeSetsFlag(o) == InitializeException(o) = "none"

Initialize(o) ==
    /\ d_calls < MaxCalls
    /\ d_pre' = DriverSnapshot
    /\ d_call' = "Initialize"
    /\ d_calls' = d_calls + 1
    /\ d_exc' = InitializeException(o)
    /\ d_fd' = IF ~SocketCreated(o) THEN "invalid"
               ELSE IF Connected(o) THEN "connected" ELSE "unconnected"
    /\ d_openFds' = IF SocketCreated(o) THEN d_openFds + 1 ELSE d_openFds
    /\ d_monitor' = IF Listening(o) THEN TRUE ELSE d_monitor
    /\ d_monitors' = IF Listening(o) THEN d_monitors + 1 ELSE d_monitors
    /\ d_ops' = <<"socket">>
                \o (IF SocketCreated(o) THEN <<"connect">> ELSE <<>>)
                \o (IF Connected(o) THEN <<"startMonitor">> ELSE <<>>)
                \o (IF Listening(o) THEN <<"send">> ELSE <<>>)
    /\ d_initialized' = IF InitializeSetsFlag(o) THEN TRUE ELSE d_initialized
    /\ d_config' = IF o = "ok" THEN "factory" ELSE d_config
    /\ UNCHANGED d_streaming
    /\ UNCHANGED otherDriverVars

\* Lines 790-793: the call is refused on a driver that is not initialized.
UninitializeRefused_Never(initialized) == FALSE
UninitializeRefused(initialized) == ~initialized

\* Where Uninitialize can fail once it is let in: the stop-stream write,
\* the stop-measuring exchange, the monitor's cancellation, close().
UninitializeOutcomes ==
    {"stopStream", "stopMeasTimeout", "stopMeasIO", "thread", "close", "ok"}

UninitializeException(o) ==
    CASE o \in {"stopStream", "stopMeasIO", "close"} -> "IOException"
      [] o = "stopMeasTimeout" -> "TimeoutException"
      [] o = "thread" -> "ThreadException"
      [] OTHER -> "none"

\* Lines 1951-2011: the stop-stream frame was written (nothing is awaited).
StreamStopped_WhenAcknowledged(o) ==
    o \notin {"stopStream", "stopMeasTimeout", "stopMeasIO"}
StreamStopped(o) == o # "stopStream"
MonitorStopped(o) == o \in {"close", "ok"}

\* Lines 798-814: the steps Uninitialize takes, in the order it takes them,
\* up to and including the one that fails.
UninitializeOps_CloseFirst(streaming, o) ==
    (IF MonitorStopped(o) THEN <<"close">> ELSE <<>>)
    \o (IF streaming THEN <<"stopStream">> ELSE <<>>)
    \o (IF streaming /\ StreamStopped(o) THEN <<"stopMeas">> ELSE <<>>)
    \o (IF o \in {"thread", "close", "ok"} THEN <<"stopMonitor">> ELSE <<>>)
UninitializeOps(streaming, o) ==
    (IF streaming THEN <<"stopStream">> ELSE <<>>)
    \o (IF streaming /\ StreamStopped(o) THEN <<"stopMeas">> ELSE <<>>)
    \o (IF o \in {"thread", "close", "ok"} THEN <<"stopMonitor">> ELSE <<>>)
    \o (IF MonitorStopped(o) THEN <<"close">> ELSE <<>>)

Uninitialize(o) ==
    /\ d_calls < MaxCalls
    /\ d_pre' = DriverSnapshot
    /\ d_call' = "Uninitialize"
    /\ d_calls' = d_calls + 1
    /\ IF UninitializeRefused(d_initialized)
       THEN /\ o = "ok"
            /\ d_exc' = "IOException"
            /\ d_ops' = <<>>
            /\ UNCHANGED <<d_initialized, d_streaming, d_fd, d_openFds, d_monitor,
                           d_monitors>>
       ELSE /\ o \in {"stopStream", "stopMeasTimeout", "stopMeasIO"} => d_streaming
            /\ d_exc' = UninitializeException(o)
            /\ d_streaming' = IF d_streaming /\ StreamStopped(o) THEN FALSE
                              ELSE d_streaming
            /\ d_monitor' = IF MonitorStopped(o) THEN FALSE ELSE d_monitor
            /\ d_monitors' = IF MonitorStopped(o) /\ d_monitors > 0
                             THEN d_monitors - 1 ELSE d_monitors
            /\ d_fd' = IF o = "ok" THEN "closed" ELSE d_fd
            /\ d_openFds' = IF o = "ok" /\ d_fd \in {"connected", "unconnected"}
                            THEN d_openFds - 1 ELSE d_openFds
            /\ d_ops' = UninitializeOps(d_streaming, o)
            /\ d_initialized' = IF UninitializeException(o) = "none" THEN FALSE
                                ELSE d_initialized
    /\ UNCHANGED d_config
    /\ UNCHANGED otherDriverVars

\* Where GetSickRange can fail once it is let in: requesting the stream
\* (reply timeout or write error), waiting for the next frame, parsing it.
GetSickRangeOutcomes == {"requestTimeout", "requestIO", "recvTimeout", "parse", "ok"}

GetSickRangeException(o) ==
    CASE o \in {"requestIO", "parse"} -> "IOException"
      [] o \in {"requestTimeout", "recvTimeout"} -> "TimeoutException"
      [] OTHER -> "none"

\* Lines 129-131, 178-180, 226-228, 329-331, 461-463, 598-600: the call is
\* refused on a driver that is not initialized.
DeviceNotInitialized_Never(initialized) == FALSE
DeviceNotInitialized(initialized) == ~initialized

GetSickRange(o) ==
    /\ d_calls < MaxCalls
    /\ d_pre' = DriverSnapshot
    /\ d_call' = "GetSickRange"
    /\ d_calls' = d_calls + 1
    /\ IF DeviceNotInitialized(d_initialized)
       THEN /\ o = "ok"
            /\ d_exc' = "IOException"
            /\ d_ops' = <<>>
            /\ UNCHANGED d_streaming
       ELSE /\ o \in {"requestTimeout", "requestIO"} => ~d_streaming
            /\ d_exc' = GetSickRangeException(o)
            /\ d_streaming' = IF o \in {"requestTimeout", "requestIO"}
                              THEN d_streaming ELSE TRUE
            /\ d_ops' = (IF ~d_streaming THEN <<"send">> ELSE <<>>)
                        \o (IF o \in {"requestTimeout", "requestIO"}
                            THEN <<>> ELSE <<"recv">>)
    /\ UNCHANGED <<d_initialized, d_fd, d_openFds, d_monitor, d_monitors, d_config>>
    /\ UNCHANGED otherDriverVars

\* The other overloads that fetch a scan: GetSickRange with two pulses
\* (324-449) and GetSickRangeAndReflect with one and two pulses (455-584,
\* 590-782).
RangeOverloads == {"GetSickRange2", "GetSickRangeAndReflect", "GetSickRangeAndReflect2"}

\* Lines 466-468, 603-605: the reflectivity option is neither 8 nor 16 bit.
InvalidReflectOpt(fn, reflect_opt) ==
    fn \in {"GetSickRangeAndReflect", "GetSickRangeAndReflect2"}
    /\ reflect_opt \notin {"REFLECT_8BIT", "REFLECT_16BIT"}

GetSickRangeOverload(fn, reflect_opt, o) ==
    /\ d_calls < MaxCalls
    /\ d_pre' = DriverSnapshot
    /\ d_call' = fn
    /\ d_calls' = d_calls + 1
    /\ IF DeviceNotInitialized(d_initialized)
       THEN /\ o = "ok"
            /\ d_exc' = "IOException"
            /\ d_ops' = <<>>
            /\ UNCHANGED d_streaming
       ELSE IF InvalidReflectOpt(fn, reflect_opt)
       THEN /\ o = "ok"
            /\ d_exc' = "ConfigException"
            /\ d_ops' = <<>>
            /\ UNCHANGED d_streaming
       ELSE /\ o \in {"requestTimeout", "requestIO"} => ~d_streaming
            /\ d_exc' = GetSickRangeException(o)
            /\ d_streaming' = IF o \in {"requestTimeout", "requestIO"}
                              THEN d_streaming ELSE TRUE
            /\ d_ops' = (IF ~d_streaming THEN <<"send">> ELSE <<>>)
                        \o (IF o \in {"requestTimeout", "requestIO"}
                            THEN <<>> ELSE <<"recv">>)
    /\ UNCHANGED <<d_initialized, d_fd, d_openFds, d_monitor, d_monitors, d_config>>
    /\ UNCHANGED otherDriverVars

\* SetSickScanFreqAndRes (126-169) and SetSickScanArea (175-217), both
\* through _setSickScanConfig (1191-1365).  Where the call can fail once it
\* is let in: the scan area is invalid, the set-config exchange (write error
\* or reply timeout), the device rejects the values, reading the
\* configuration back.
SetSickScanOutcomes == {"area", "setIO", "setTimeout", "rejected", "readback", "ok"}

SetSickScanException(o) ==
    CASE o \in {"area", "rejected"} -> "ConfigException"
      [] o \in {"setIO", "readback"} -> "IOException"
      [] o = "setTimeout" -> "TimeoutException"
      [] OTHER -> "none"

SetSickScan(fn, o) ==
    /\ d_calls < MaxCalls
    /\ d_pre' = DriverSnapshot
    /\ d_call' = fn
    /\ d_calls' = d_calls + 1
    /\ IF DeviceNotInitialized(d_initialized)
       THEN /\ o = "ok"
            /\ d_exc' = "IOException"
            /\ d_ops' = <<>>
            /\ UNCHANGED d_config
       ELSE /\ d_exc' = SetSickScanException(o)
            /\ d_ops' = IF o = "area" THEN <<>>
                        ELSE IF o \in {"setIO", "setTimeout", "rejected"} THEN <<"send">>
                        ELSE <<"send", "send">>
            /\ d_config' = IF o = "ok" THEN fn ELSE d_config
    /\ UNCHANGED <<d_initialized, d_streaming, d_fd, d_openFds, d_monitor, d_monitors>>
    /\ UNCHANGED otherDriverVars

---------------------------------------------------------------------------
(* Stopping the monitor thread (SickBufferMonitor::StopMonitor)            *)

\* stop(): the caller asks for the monitor thread's cancellation and waits
\* in the join.
StopMonitor ==
    /\ monState = "Running"
    /\ monState' = "Cancelling"
    /\ UNCHANGED <<stream, mailbox, lastScan, wire, pubLog>>
    /\ UNCHANGED otherMonitorVars

\* The thread can act on a pending cancellation where it is: between two
\* scans, or in a read, whether or not the transport s holds a byte.
CancellationPoint_OnlyOnData(s) == s # <<>>
CancellationPoint(s) == TRUE

\* The thread acts on the cancellation and ends; the join returns.
MonitorCancelled ==
    /\ monState = "Cancelling"
    /\ CancellationPoint(stream)
    /\ monState' = "Stopped"
    /\ UNCHANGED <<stream, mailbox, lastScan, wire, pubLog>>
    /\ UNCHANGED otherMonitorVars

---------------------------------------------------------------------------
(* LMS 1xx family: opening the TCP connection (SickLMS1xx::_setupConnection) *)

\* What the system calls of one _setupConnection call return: socket() and
\* connect() (with errno), select() on the socket's writability, FD_ISSET,
\* getsockopt(SO_ERROR) and the pending error it stores in valid_opt.
ConnectEnvs ==
    [socket : {3, -1}, connect : {0, -1}, errno : {"EINPROGRESS", "ECONNREFUSED"},
     select : {1, 0, -1}, isset : BOOLEAN, getsockopt : {0, -1},
     valid_opt : {0, 111}]

NoConnectEnv ==
    [socket |-> 3, connect |-> 0, errno |-> "EINPROGRESS", select |-> 1,
     isset |-> TRUE, getsockopt |-> 0, valid_opt |-> 0]

\* Lines 921-923: if (valid_opt) throw ...
SocketErrorPending_Ignored(valid_opt) == FALSE
SocketErrorPending(valid_opt) == valid_opt # 0

\* Lines 907-925: select() reported a descriptor ready.
AfterSelectReady(env) ==
    IF ~env.isset THEN "IOException"
    ELSE IF env.getsockopt < 0 THEN "IOException"
    ELSE IF SocketErrorPending(env.valid_opt) THEN "IOException"
    ELSE "none"

\* Lines 904-939: the wait for the connection, bounded by the connect timeout.
AfterSelect(env) ==
    IF env.select > 0 THEN AfterSelectReady(env)
    ELSE IF env.select = 0 THEN "Timeout"
    ELSE "IOException"

\* Lines 863-962: the exception _setupConnection ends with, or "none".
setupConnection(env) ==
    IF env.socket < 0 THEN "IOException"
    ELSE IF env.connect < 0
         THEN IF env.errno # "EINPROGRESS" THEN "IOException"
              ELSE AfterSelect(env)
         ELSE "none"

\* Line 942: _setBlockingIO() follows the whole connect block, so it is
\* reached when nothing was thrown before it.
RestoresBlockingIO_AfterSelectOnly(env) ==
    env.socket >= 0 /\ env.connect < 0 /\ setupConnection(env) = "none"
RestoresBlockingIO(env) ==
    env.socket >= 0 /\ setupConnection(env) = "none"

\* Lines 863-942: the calls _setupConnection makes on the socket, in order.
setupConnectionCalls(env) ==
    <<"socket">>
    \o (IF env.socket < 0 THEN <<>>
        ELSE <<"setNonBlockingIO", "connect">>
             \o (IF env.connect < 0 /\ env.errno = "EINPROGRESS"
                 THEN <<"select">>
                      \o (IF env.select > 0 /\ env.isset
                          THEN <<"getsockopt">> ELSE <<>>)
                 ELSE <<>>))
    \o (IF RestoresBlockingIO(env) THEN <<"setBlockingIO">> ELSE <<>>)

\* The socket is in non-blocking mode when the i-th of the calls is made
\* (for i one past the last call: when _setupConnection ends).  A socket is
\* created blocking; _setNonBlockingIO and _setBlockingIO switch its mode.
NonBlockingAt(calls, i) ==
    \E j \in 1..(i - 1) :
        /\ calls[j] = "setNonBlockingIO"
        /\ \A k \in (j + 1)..(i - 1) : calls[k] # "setBlockingIO"

\* One call of _setupConnection.
SetupConnection(env) ==
    /\ c_setup' = [called |-> TRUE, env |-> env, exc |-> setupConnection(env),
                   calls |-> setupConnectionCalls(env),
                   blocking |-> ~NonBlockingAt(setupConnectionCalls(env),
                                               Len(setupConnectionCalls(env)) + 1)]
    /\ UNCHANGED otherConnVars

---------------------------------------------------------------------------
(* LMS 1xx: requesting a data stream (SickLMS1xx::_requestDataStreamByType) *)

\* Rounds of the status loop that fit in _checkForMeasuringStatus's timeout.
StatusPolls == 2

\* Device states a status reply can report (sick_lms_1xx_status_t).
SickStatuses == {"UNDEFINED", "IDLE", "READY", "READY_FOR_MEASUREMENT"}

\* How an exchange with the device can end.
ExchangeOutcomes == {"ok", "timeout", "io"}
ExchangeException(o) ==
    CASE o = "timeout" -> "TimeoutException"
      [] o = "io" -> "IOException"
      [] OTHER -> "none"

\* Line 2030: the loop of _checkForMeasuringStatus is left.
StatusReady_AnyKnown(status) == status # "UNDEFINED"
StatusReady(status) == status = "READY_FOR_MEASUREMENT"

NoRequest ==
    [pc |-> "idle", status |-> "UNDEFINED", sent |-> <<>>, exc |-> "none",
     elapsed |-> 0, first_pass |-> TRUE, first |-> "none"]

\* Lines 1695-1701 and _setSickScanDataFormat: the request begins by logging
\* in and writing the scan data format.  login is the login exchange's end
\* ("rejected": the reply's status is not '1'), o the end of the write.
ReqSetFormat(login, o) ==
    /\ q_req.pc \in {"idle", "done"}
    /\ login # "ok" => o = "ok"
    /\ q_req' =
         IF login = "rejected"
         THEN [q_req EXCEPT !.pc = "done", !.sent = <<"SetAccessMode">>,
                            !.exc = "IOException", !.first = "none"]
         ELSE IF login # "ok"
         THEN [q_req EXCEPT !.pc = "done", !.sent = <<"SetAccessMode">>,
                            !.exc = ExchangeException(login), !.first = "none"]
         ELSE IF o # "ok"
         THEN [q_req EXCEPT !.pc = "done",
                            !.sent = <<"SetAccessMode", "LMDscandatacfg">>,
                            !.exc = ExchangeException(o), !.first = "none"]
         ELSE [q_req EXCEPT !.pc = "status",
                            !.sent = <<"SetAccessMode", "LMDscandatacfg">>,
                            !.exc = "none", !.elapsed = 0, !.first_pass = TRUE,
                            !.first = "none"]
    /\ UNCHANGED otherReqVars

\* Lines 2026-2030 and 2071-2073: _updateSickStatus asks for the device
\* status; the loop condition is evaluated on the status it stored.
ReqUpdateStatus(o, st) ==
    /\ q_req.pc = "status"
    /\ o # "ok" => st = "UNDEFINED"
    /\ q_req' =
         IF o # "ok"
         THEN [q_req EXCEPT !.pc = "done", !.sent = Append(@, "STlms"),
                            !.exc = ExchangeException(o)]
         ELSE [q_req EXCEPT !.sent = Append(@, "STlms"),
                            !.status = st,
                            !.first = IF @ = "none" THEN st ELSE @,
                            !.pc = IF StatusReady(st) THEN "start"
                                   ELSE IF q_req.first_pass THEN "startmeas"
                                   ELSE "sleep"]
    /\ UNCHANGED otherReqVars

\* Lines 2032-2059 and _startMeasuring (1544-1611).  A reply that reports
\* failure makes _startMeasuring throw SickConfigException (line 1608),
\* which its exception specification (line 1544) does not list: the program
\* is terminated.
ReqStartMeasuring(o) ==
    /\ q_req.pc = "startmeas"
    /\ q_req' =
         IF o = "ok"
         THEN [q_req EXCEPT !.pc = "sleep", !.sent = Append(@, "LMCstartmeas"),
                            !.first_pass = FALSE]
         ELSE IF o = "rejected"
         THEN [q_req EXCEPT !.pc = "terminated", !.sent = Append(@, "LMCstartmeas"),
                            !.exc = "ConfigException"]
         ELSE [q_req EXCEPT !.pc = "done", !.sent = Append(@, "LMCstartmeas"),
                            !.exc = ExchangeException(o)]
    /\ UNCHANGED otherReqVars

\* Lines 2062-2069: sleep, then give up if the allowed time has passed.
\* expired: the clock has passed the timeout (the exchanges take time too).
ReqSleep(expired) ==
    /\ q_req.pc = "sleep"
    /\ q_req.elapsed >= StatusPolls => expired
    /\ q_req' =
         IF expired
         THEN [q_req EXCEPT !.pc = "done", !.exc = "TimeoutException",
                            !.elapsed = @ + 1]
         ELSE [q_req EXCEPT !.pc = "status", !.elapsed = @ + 1]
    /\ UNCHANGED otherReqVars

\* Line 1709 and _startStreamingMeasurements (1884-1946).
ReqStartStream(o) ==
    /\ q_req.pc = "start"
    /\ q_req' = [q_req EXCEPT !.pc = "done", !.sent = Append(@, "LMDscandata"),
                              !.exc = ExchangeException(o)]
    /\ UNCHANGED otherReqVars

---------------------------------------------------------------------------
(* LMS 1xx: configuration commands (SickLMS1xx::_setSickScanConfig, ...)   *)

\* Limits of the scan area in 1/10000 degree (documented at lines 1187-1188).
SICK_LMS_1XX_SCAN_AREA_MIN_ANGLE == -450000
SICK_LMS_1XX_SCAN_AREA_MAX_ANGLE == 2250000

\* Lines 2287-2310
validScanArea_RangeOnly(start_angle, stop_angle) ==
    /\ ~(start_angle < SICK_LMS_1XX_SCAN_AREA_MIN_ANGLE
         \/ start_angle > SICK_LMS_1XX_SCAN_AREA_MAX_ANGLE)
    /\ ~(stop_angle < SICK_LMS_1XX_SCAN_AREA_MIN_ANGLE
         \/ stop_angle > SICK_LMS_1XX_SCAN_AREA_MAX_ANGLE)
validScanArea(start_angle, stop_angle) ==
    /\ ~(start_angle >= stop_angle)
    /\ ~(start_angle < SICK_LMS_1XX_SCAN_AREA_MIN_ANGLE
         \/ start_angle > SICK_LMS_1XX_SCAN_AREA_MAX_ANGLE)
    /\ ~(stop_angle < SICK_LMS_1XX_SCAN_AREA_MIN_ANGLE
         \/ stop_angle > SICK_LMS_1XX_SCAN_AREA_MAX_ANGLE)

\* Lines 1294, 1498, 2104, 2255: if (!_setAuthorizedClientAccessMode()) throw.
\* login is how the login exchange ended: "ok" (reply status '1'),
\* "rejected" (another status, the function returns false), or a failure.
LoginAccepted_Unchecked(login) == login \in {"ok", "rejected"}
LoginAccepted(login) == login = "ok"

\* The login followed by the command it guards: the frames sent and the
\* exception thrown, if any.
AuthorizedSend(login, cmd, o) ==
    IF login \in {"timeout", "io"}
    THEN [sent |-> <<"SetAccessMode">>, exc |-> ExchangeException(login)]
    ELSE IF ~LoginAccepted(login)
    THEN [sent |-> <<"SetAccessMode">>, exc |-> "IOException"]
    ELSE [sent |-> <<"SetAccessMode", cmd>>, exc |-> ExchangeException(o)]

\* A token of a reply: a hexadecimal number, other text, or white space
\* that is no blank.
Hex(v) == [kind |-> "hex", val |-> v]
TextToken == [kind |-> "text", val |-> 0]
BlankToken == [kind |-> "blank", val |-> 0]

\* sscanf(token, "%x", &var): the return value and var afterwards.  Text
\* that is no number converts nothing and returns 0; EOF is returned only
\* when the input ends before any conversion is tried.
sscanf_x(token, var) ==
    CASE token.kind = "hex" -> [ret |-> 1, var |-> token.val]
      [] token.kind = "text" -> [ret |-> 0, var |-> var]
      [] OTHER -> [ret |-> -1, var |-> var]

\* Lines 1104-1181: the tokens are taken one by one; a missing token or an
\* EOF from sscanf throws, and the four fields are assigned at the end.
\* Token 2 (the number of segments) is taken and ignored.
getSickScanConfig(config, o, tokens) ==
    IF o # "ok" THEN [exc |-> ExchangeException(o), config |-> config]
    ELSE IF \/ Len(tokens) < 5
            \/ \E i \in {1, 3, 4, 5} : sscanf_x(tokens[i], 0).ret = -1
    THEN [exc |-> "IOException", config |-> config]
    ELSE [exc |-> "none",
          config |-> [freq |-> sscanf_x(tokens[1], 0).var,
                      res |-> sscanf_x(tokens[3], 0).var,
                      start |-> sscanf_x(tokens[4], 0).var,
                      stop |-> sscanf_x(tokens[5], 0).var]]

\* The configuration the device reports at start-up.
FactoryConfig == [freq |-> 5000, res |-> 5000, start |-> -450000, stop |-> 2250000]

NoConfigCall ==
    [call |-> "none", req |-> FactoryConfig, login |-> "none", sent |-> <<>>,
     exc |-> "none", config |-> FactoryConfig, pre |-> FactoryConfig,
     tokens |-> <<>>, readback |-> FALSE]

\* Lines 1191-1365: _setSickScanConfig.  status is the status character of
\* the reply to the set command, rb and tokens the read-back exchange.
SetSickScanConfig(req, login, o, status, rb, tokens) ==
    /\ k_cfg.call # "terminated"
    /\ (~validScanArea(req.start, req.stop) \/ login # "ok") => o = "ok"
    /\ (~validScanArea(req.start, req.stop) \/ login # "ok" \/ o # "ok") => status = "0"
    /\ (~validScanArea(req.start, req.stop) \/ login # "ok" \/ o # "ok" \/ status # "0")
           => (rb = "ok" /\ tokens = <<>>)
    /\ rb # "ok" => tokens = <<>>
    /\ k_cfg' =
         IF ~validScanArea(req.start, req.stop)
         THEN [k_cfg EXCEPT !.call = "setSickScanConfig", !.req = req,
                            !.login = "none", !.sent = <<>>,
                            !.exc = "ConfigException", !.pre = k_cfg.config,
                            !.tokens = <<>>, !.readback = FALSE]
         ELSE IF AuthorizedSend(login, "mLMPsetscancfg", o).exc # "none"
         THEN [k_cfg EXCEPT !.call = "setSickScanConfig", !.req = req,
                            !.login = login,
                            !.sent = AuthorizedSend(login, "mLMPsetscancfg", o).sent,
                            !.exc = AuthorizedSend(login, "mLMPsetscancfg", o).exc,
                            !.pre = k_cfg.config,
                            !.tokens = <<>>, !.readback = FALSE]
         ELSE IF status # "0"
         THEN [k_cfg EXCEPT !.call = "setSickScanConfig", !.req = req,
                            !.login = login,
                            !.sent = AuthorizedSend(login, "mLMPsetscancfg", o).sent,
                            !.exc = "ConfigException", !.pre = k_cfg.config,
                            !.tokens = <<>>, !.readback = FALSE]
         ELSE [k_cfg EXCEPT !.call = "setSickScanConfig", !.req = req,
                            !.login = login,
                            !.sent = Append(AuthorizedSend(login, "mLMPsetscancfg", o).sent,
                                            "LMPscancfg"),
                            !.exc = getSickScanConfig(k_cfg.config, rb, tokens).exc,
                            !.config = getSickScanConfig(k_cfg.config, rb, tokens).config,
                            !.pre = k_cfg.config,
                            !.tokens = tokens, !.readback = (rb = "ok")]
    /\ UNCHANGED otherCfgVars

\* The other commands that need the login: _setSickScanDataFormat
\* (2253-2263, "LMDscandatacfg"), _writeToEEPROM (1496-1506, "mEEwriteall")
\* and _restoreMeasuringMode (2102-2141, "Run").  status is the status
\* character of the command's reply: _writeToEEPROM throws unless it is '1'
\* (1531), _restoreMeasuringMode rethrows with no exception in flight unless
\* it is '0' (2136-2139), which terminates the program.
AuthorizedCommand(cmd, login, o, status) ==
    /\ k_cfg.call # "terminated"
    /\ login # "ok" => o = "ok"
    /\ (login # "ok" \/ o # "ok" \/ cmd = "LMDscandatacfg") => status = "0"
    /\ k_cfg' =
         [k_cfg EXCEPT
            !.call = IF /\ AuthorizedSend(login, cmd, o).exc = "none"
                        /\ cmd = "Run" /\ status # "0"
                     THEN "terminated" ELSE cmd,
            !.req = FactoryConfig,
            !.login = login,
            !.sent = AuthorizedSend(login, cmd, o).sent,
            !.exc = IF /\ AuthorizedSend(login, cmd, o).exc = "none"
                       /\ cmd = "mEEwriteall" /\ status # "1"
                    THEN "IOException"
                    ELSE AuthorizedSend(login, cmd, o).exc,
            !.pre = k_cfg.config,
            !.tokens = <<>>, !.readback = FALSE]
    /\ UNCHANGED otherCfgVars

\* Angles a caller asks for: the limits, their neighbours, and one inside.
RequestAngles ==
    {SICK_LMS_1XX_SCAN_AREA_MIN_ANGLE - 1, SICK_LMS_1XX_SCAN_AREA_MIN_ANGLE, 0,
     SICK_LMS_1XX_SCAN_AREA_MAX_ANGLE, SICK_LMS_1XX_SCAN_AREA_MAX_ANGLE + 1}

ConfigRequests ==
    [freq : {2500}, res : {2500, 5000}, start : RequestAngles, stop : RequestAngles]

\* What the device can answer a scan-config query with: the tokens that
\* follow "sRA LMPscancfg".
ReadbackReplies ==
    {<<Hex(2500), Hex(1), Hex(2500), Hex(0), Hex(2250000)>>,
     <<Hex(2500), Hex(1), Hex(5000), Hex(-450000), Hex(0)>>,
     <<Hex(2500), Hex(1), Hex(2500)>>,
     <<TextToken, Hex(1), Hex(2500), Hex(0), Hex(2250000)>>,
     <<Hex(2500), Hex(1), Hex(2500), Hex(0), BlankToken>>,
     <<>>}

---------------------------------------------------------------------------
(* LMS 1xx measurement getters and the device's scan data format           *)

ReflectOpts == {"REFLECT_NONE", "REFLECT_8BIT", "REFLECT_16BIT"}

\* Lines 233-234, 336-337, 473-474, 610-611: the format a getter asks
\* _requestDataStreamByType for when it finds no stream running.
RequestedFormat(fn, reflect_opt) ==
    [dist |-> IF fn \in {"GetSickRange", "GetSickRangeAndReflect"}
              THEN "DIST_SINGLE_PULSE" ELSE "DIST_DOUBLE_PULSE",
     reflect |-> IF fn = "GetSickRangeAndReflect" THEN reflect_opt ELSE "REFLECT_NONE"]

\* The format whose frames a getter parses: its distance channels, and the
\* reflectivity channels at the caller's resolution.
ParsedFormat(fn, reflect_opt) ==
    [dist |-> IF fn \in {"GetSickRange", "GetSickRangeAndReflect"}
              THEN "DIST_SINGLE_PULSE" ELSE "DIST_DOUBLE_PULSE",
     reflect |-> IF fn \in {"GetSickRangeAndReflect", "GetSickRangeAndReflect2"}
                 THEN reflect_opt ELSE "REFLECT_NONE"]

\* Lines 2178-2210: the channels the "sWN LMDscandatacfg" command switches on
\* (output channel 01 or 03, remission yes or no), hence the sections of
\* every frame streamed afterwards.
FrameSections(format) ==
    {"DIST1"}
    \cup (IF format.dist = "DIST_DOUBLE_PULSE" THEN {"DIST2"} ELSE {})
    \cup (IF format.reflect \in {"REFLECT_8BIT", "REFLECT_16BIT"}
          THEN {"RSSI1"} \cup (IF format.dist = "DIST_DOUBLE_PULSE" THEN {"RSSI2"} ELSE {})
          ELSE {})

\* Lines 296, 398-424, 533-559, 672-753: the sections a getter looks up
\* with _findSubString; a section that is missing ends the call with
\* SickIOException.
SearchedSections(fn) ==
    CASE fn = "GetSickRange" -> {"DIST1"}
      [] fn = "GetSickRange2" -> {"DIST1", "DIST2"}
      [] fn = "GetSickRangeAndReflect" -> {"DIST1", "RSSI1"}
      [] OTHER -> {"DIST1", "DIST2", "RSSI1", "RSSI2"}

NoFormat == [dist |-> "unset", reflect |-> "unset"]

NoGetterCall ==
    [streaming |-> FALSE, format |-> NoFormat, call |-> "none", opt |-> "none",
     sent |-> FALSE, read |-> FALSE, exc |-> "none", calls |-> 0]

\* Where a getter can fail on an initialized driver: setting the scan data
\* format, the rest of the stream request, waiting for the next frame; the
\* frame's contents decide the rest.
GetterOutcomes == {"format", "start", "recv", "ok"}

\* Lines 222-319, 324-449, 455-584, 590-782 on an initialized driver.
GetMeasurements(fn, reflect_opt, o) ==
    /\ g_get.calls < MaxCalls
    /\ IF InvalidReflectOpt(fn, reflect_opt)
       THEN /\ o = "ok"
            /\ g_get' = [g_get EXCEPT !.call = fn, !.opt = reflect_opt,
                                      !.sent = FALSE, !.read = FALSE,
                                      !.exc = "ConfigException",
                                      !.calls = g_get.calls + 1]
       ELSE /\ o \in {"format", "start"} => ~g_get.streaming
            /\ \E format \in {IF g_get.streaming \/ o = "format" THEN g_get.format
                              ELSE RequestedFormat(fn, reflect_opt)} :
                 g_get' = [streaming |-> g_get.streaming \/ o \in {"recv", "ok"},
                           format |-> format,
                           call |-> fn,
                           opt |-> reflect_opt,
                           sent |-> ~g_get.streaming /\ o # "format",
                           read |-> o = "ok",
                           exc |-> CASE o = "format" -> "IOException"
                                     [] o \in {"start", "recv"} -> "TimeoutException"
                                     [] OTHER ->
                                        IF SearchedSections(fn) \subseteq FrameSections(format)
                                        THEN "none" ELSE "IOException",
                           calls |-> g_get.calls + 1]
    /\ UNCHANGED otherGetVars

\* Lines 798-804, 1951-2011: Uninitialize stops the stream, the only call
\* that does; the device keeps its scan data format.
GetterStreamStopped ==
    /\ g_get.calls < MaxCalls
    /\ g_get.streaming
    /\ g_get' = [g_get EXCEPT !.streaming = FALSE, !.call = "Uninitialize",
                              !.opt = "none", !.sent = FALSE, !.read = FALSE,
                              !.exc = "none", !.calls = g_get.calls + 1]
    /\ UNCHANGED otherGetVars

---------------------------------------------------------------------------
(* MATLAB bindings: lms1xxmex.cc and lmsmex.cc                             *)

Bindings == {"lms1xx", "lms"}

\* The scan formats grab is asked for (lms1xxmex.cc 511-527 accepts six).
MexScanFormats ==
    {"DIST_SINGLE_PULSE_REFLECT_NONE", "DIST_SINGLE_PULSE_REFLECT_8BIT",
     "DIST_DOUBLE_PULSE_REFLECT_NONE"}

\* lms1xxmex.cc 70-71, lmsmex.cc 69: the globals of a binding just loaded.
\* live counts the driver objects constructed and not deleted, set_format is
\* the format last set on the object the pointer refers to, cleared tells
\* whether the last command deleted an object and how its Uninitialize ended.
NoMex ==
    [binding |-> "none", sick |-> "NULL", initialized |-> FALSE, live |-> 0,
     registered |-> FALSE, curr_scan_format |-> "UNKNOWN", set_format |-> "UNKNOWN",
     cmd |-> "none", err |-> "none", cleared |-> "none", set |-> FALSE,
     read |-> FALSE, calls |-> 0]

\* How a driver call made by a binding ends.
MexOutcomes == {"ok", "throw"}

\* lms1xxmex.cc 530-553, lmsmex.cc 467-488: Uninitialize if the object is
\* initialized, swallowing whatever it throws; then delete and null.
clearSick_StopOnThrow(m, unin) ==
    IF m.sick = "NULL" \/ (m.initialized /\ unin = "throw") THEN m
    ELSE [m EXCEPT !.sick = "NULL", !.initialized = FALSE, !.live = m.live - 1,
                   !.set_format = "UNKNOWN",
                   !.cleared = IF m.initialized /\ unin = "throw" THEN "threw"
                               ELSE "clean"]
clearSick(m, unin) ==
    IF m.sick = "NULL" THEN m
    ELSE [m EXCEPT !.sick = "NULL", !.initialized = FALSE, !.live = m.live - 1,
                   !.set_format = "UNKNOWN",
                   !.cleared = IF m.initialized /\ unin = "throw" THEN "threw"
                               ELSE "clean"]

\* What every command does first: the binding is loaded, the command noted.
MexCommand(b, cmd) ==
    [m_mex EXCEPT !.binding = b, !.cmd = cmd, !.err = "none",
                  !.cleared = "none", !.set = FALSE,
                  !.read = FALSE, !.calls = m_mex.calls + 1]

\* lms1xxmex.cc 124-190 and lmsmex.cc 130-248.  args: the arguments are
\* fine, are refused before anything is touched, or (lms) hold a baud rate
\* refused after the previous instance was cleared.  o: how Initialize
\* ends; query: how the calls after it end (lms 200-206).
initSick(b, args, unin, o, query, unin2) ==
    /\ m_mex.calls < MaxCalls
    /\ m_mex.binding \in {"none", b}
    /\ args = "badBaud" => b = "lms"
    /\ query = "throw" => (b = "lms" /\ o = "ok")
    /\ \E m0 \in {MexCommand(b, "init")} :
         IF args = "bad"
         THEN m_mex' = [m0 EXCEPT !.err = "usage"]
         ELSE \E m1 \in {clearSick(m0, unin)} :
              IF args = "badBaud"
              THEN m_mex' = [m1 EXCEPT !.err = "usage"]
              ELSE \E m2 \in {[m1 EXCEPT !.sick = "object", !.live = m1.live + 1,
                                         !.initialized = (o = "ok"),
                                         !.set_format = "UNKNOWN"]} :
                   IF o = "ok" /\ query = "ok"
                   THEN m_mex' = [m2 EXCEPT !.registered = TRUE]
                   ELSE m_mex' = [clearSick(m2, unin2) EXCEPT !.err = "driver"]
    /\ UNCHANGED otherMexVars

\* lms1xxmex.cc 196-198, 306-308; lmsmex.cc 254, 336, 446: a command other
\* than init is refused without a live, initialized driver.
MexNotInitialized(m) == m.sick = "NULL" \/ ~m.initialized

\* lms1xxmex.cc 193-273 (setfreqres) and lmsmex.cc 251-307 (variant).  o: the
\* driver's call succeeds, throws SickConfigException, or throws another.
setScanFreqAndRes(b, args, o, unin) ==
    /\ m_mex.calls < MaxCalls
    /\ m_mex.binding \in {"none", b}
    /\ \E m0 \in {MexCommand(b, IF b = "lms1xx" THEN "setfreqres" ELSE "variant")} :
         IF MexNotInitialized(m0) \/ args = "bad"
         THEN m_mex' = [m0 EXCEPT !.err = "usage"]
         ELSE IF o = "ok"
         THEN m_mex' = m0
         ELSE IF o = "config" /\ b = "lms"
         THEN m_mex' = [m0 EXCEPT !.err = "driver"]
         ELSE m_mex' = [clearSick(m0, unin) EXCEPT !.err = "driver"]
    /\ UNCHANGED otherMexVars

\* lms1xxmex.cc 350-356: the format is set on the driver only when it
\* differs from the remembered one.
SwitchScanFormat(b, curr, desired) == b = "lms1xx" /\ curr # desired

\* lms1xxmex.cc 277-503 and lmsmex.cc 310-440.  o_set: how
\* SetSickScanDataFormat ends if it is called; o_get: how the measurement
\* getter ends.
grabSickVals(b, args, desired, o_set, o_get, unin) ==
    /\ m_mex.calls < MaxCalls
    /\ m_mex.binding \in {"none", b}
    /\ \E m0 \in {MexCommand(b, "grab")} :
         IF MexNotInitialized(m0) \/ args = "bad"
         THEN /\ o_set = "ok" /\ o_get = "ok"
              /\ m_mex' = [m0 EXCEPT !.err = "usage"]
         ELSE \E switch \in {SwitchScanFormat(b, m0.curr_scan_format, desired)} :
              /\ o_set = "throw" => switch
              /\ o_get = "throw" => o_set = "ok"
              /\ IF o_set = "throw"
                 THEN m_mex' = [clearSick([m0 EXCEPT !.set = TRUE], unin)
                                  EXCEPT !.err = "driver"]
                 ELSE \E m1 \in {IF switch
                                 THEN [m0 EXCEPT !.set = TRUE, !.set_format = desired,
                                                 !.curr_scan_format = desired]
                                 ELSE m0} :
                      IF o_get = "throw"
                      THEN m_mex' = [clearSick([m1 EXCEPT !.read = TRUE], unin)
                                       EXCEPT !.err = "driver"]
                      ELSE m_mex' = [m1 EXCEPT !.read = TRUE]
    /\ UNCHANGED otherMexVars

\* lmsmex.cc 443-464: info prints the driver's status; lms1xxmex.cc has no
\* such command.
printSickInfo(args) ==
    /\ m_mex.calls < MaxCalls
    /\ m_mex.binding \in {"none", "lms"}
    /\ \E m0 \in {MexCommand("lms", "info")} :
         m_mex' = [m0 EXCEPT !.err = IF MexNotInitialized(m0) \/ args = "bad"
                                     THEN "usage" ELSE "none"]
    /\ UNCHANGED otherMexVars

\* lms1xxmex.cc 556-558, lmsmex.cc 491-493: the exit callback, registered by
\* a successful init (lms1xxmex.cc 188, lmsmex.cc 241), runs when the mex
\* file is cleared; the next command loads it afresh, statics
\* re-initialized.
mexExit(unin) ==
    /\ m_mex.calls < MaxCalls
    /\ m_mex.registered
    /\ \E m1 \in {clearSick([m_mex EXCEPT !.cleared = "none"], unin)} :
         m_mex' = [NoMex EXCEPT !.sick = m1.sick, !.initialized = m1.initialized,
                                !.live = m1.live, !.set_format = m1.set_format,
                                !.cleared = m1.cleared,
                                !.cmd = "exit", !.calls = m_mex.calls + 1]
    /\ UNCHANGED otherMexVars

---------------------------------------------------------------------------
(* Specifications *)

\* The state after construction: an idle ASCII container, an empty stream with
\* the monitor running, an idle caller, a free lock and an empty shared
\* container, and a driver object as its constructor leaves it.
Init ==
    /\ a_pc = "init"
    /\ a_payload = <<>>
    /\ a_built = Lms1xxCleared
    /\ a_parsed = Lms1xxCleared
    /\ stream = <<>>
    /\ monState = "Running"
    /\ mailbox = ClearedMessage
    /\ lastScan = NoScan
    /\ wire = <<>>
    /\ pubLog = <<>>
    /\ e_pc = "idle"
    /\ e_call = [type |-> <<>>, cmd |-> <<>>, expected |-> <<>>, num_tries |-> 0]
    /\ e_try = 0
    /\ e_sends = 0
    /\ e_elapsed = 0
    /\ e_exc = "none"
    /\ e_recv = EmptyFrame
    /\ e_slot = EmptyFrame
    /\ e_pubs = 0
    /\ e_dropped = 0
    /\ mb_lock = "free"
    /\ mb_slot = MbEmpty
    /\ mb_mpc = "scan"
    /\ mb_mcur = 0
    /\ mb_done = 0
    /\ mb_rpc = "idle"
    /\ mb_rmsg = MbEmpty
    /\ mb_rlatest = 0
    /\ mb_rlog = <<>>
    /\ mb_waits = 0
    /\ mb_rexc = "none"
    /\ d_initialized = FALSE
    /\ d_streaming = FALSE
    /\ d_fd = "none"
    /\ d_openFds = 0
    /\ d_monitor = FALSE
    /\ d_monitors = 0
    /\ d_ops = <<>>
    /\ d_call = "none"
    /\ d_exc = "none"
    /\ d_calls = 0
    /\ d_pre = [initialized |-> FALSE, streaming |-> FALSE, fd |-> "none",
                openFds |-> 0, monitor |-> FALSE, monitors |-> 0,
                call |-> "none", exc |-> "none", config |-> "unset"]
    /\ d_config = "unset"
    /\ c_setup = [called |-> FALSE, env |-> NoConnectEnv, exc |-> "none",
                  calls |-> <<>>, blocking |-> TRUE]
    /\ q_req = NoRequest
    /\ k_cfg = NoConfigCall
    /\ m_mex = NoMex
    /\ g_get = NoGetterCall

\* The binary-family monitor scanning what the transport delivers.
MonitorNext ==
    \/ \E seg \in Segments : Arrive(seg)
    \/ \E io \in {"ok", "drain", "read"} : MonitorIterate(io)
    \/ \E crash \in BOOLEAN : MonitorOverrun(crash)

SpecMonitor ==
    Init /\ [][MonitorNext]_vars

\* The monitor thread, its transport, and a caller that stops the monitor.
\* The thread is scheduled: a cancellation it can act on, it acts on.
\* Nothing is assumed of the transport: no byte need ever arrive.
MonitorStopNext ==
    \/ \E seg \in Segments : Arrive(seg)
    \/ \E io \in {"ok", "drain", "read"} : MonitorIterate(io)
    \/ \E crash \in BOOLEAN : MonitorOverrun(crash)
    \/ StopMonitor
    \/ MonitorCancelled

SpecMonitorStop ==
    /\ Init /\ [][MonitorStopNext]_vars
    /\ WF_vars(MonitorCancelled)

\* The caller's thread making public calls on the driver while a monitor
\* thread scans what its transport delivers, one frame at a time.
FlagsNext ==
    \/ \E o \in InitializeOutcomes : Initialize(o)
    \/ \E o \in UninitializeOutcomes : Uninitialize(o)
    \/ \E o \in GetSickRangeOutcomes : GetSickRange(o)
    \/ \E seg \in {s \in Segments : s.kind = "frame"} : wire = <<>> /\ Arrive(seg)
    \/ \E io \in {"ok", "read"} : MonitorIterate(io)

SpecFlags ==
    Init /\ [][FlagsNext]_vars

\* Every public call that talks to the device, in any order.
GuardNext ==
    \/ \E o \in InitializeOutcomes : Initialize(o)
    \/ \E o \in UninitializeOutcomes : Uninitialize(o)
    \/ \E o \in GetSickRangeOutcomes : GetSickRange(o)
    \/ \E fn \in RangeOverloads :
         \E reflect_opt \in {"REFLECT_NONE", "REFLECT_8BIT", "REFLECT_16BIT"} :
            \E o \in GetSickRangeOutcomes : GetSickRangeOverload(fn, reflect_opt, o)
    \/ \E fn \in {"SetSickScanFreqAndRes", "SetSickScanArea"} :
         \E o \in SetSickScanOutcomes : SetSickScan(fn, o)

SpecGuard ==
    Init /\ [][GuardNext]_vars

\* The binary-family monitor scanning one frame damaged on the line.
CodecNext ==
    \/ \E payload \in CodecPayloads :
         \E i \in 1..(MESSAGE_MAX_LENGTH) : \E k \in 0..7 :
            ArriveFlipped(payload, i, k)
    \/ \E io \in {"ok", "drain", "read"} : MonitorIterate(io)

SpecCodec ==
    Init /\ [][CodecNext]_vars

\* The binary-family monitor on a line that delivers valid frames after a
\* damaged one.
ChecksumNext ==
    \/ \E payload \in MonitorPayloads :
         \E i \in 1..(MESSAGE_MAX_LENGTH) : \E k \in 0..7 :
            ArriveFlipped(payload, i, k)
    \/ \E seg \in {s \in Segments : s.kind = "frame"} : Arrive(seg)
    \/ \E io \in {"ok", "drain", "read"} : MonitorIterate(io)

SpecChecksum ==
    Init /\ [][ChecksumNext]_vars

\* Calls of _setupConnection, whatever the system calls return.
ConnectNext ==
    \E env \in ConnectEnvs : SetupConnection(env)

SpecConnect ==
    Init /\ [][ConnectNext]_vars

\* The ASCII-family message container: build, then parse what was built.
AsciiNext ==
    \/ \E payload \in AsciiPayloads : AsciiBuild(payload)
    \/ AsciiParse

SpecAscii ==
    Init /\ [][AsciiNext]_vars

\* One caller using _sendMessageAndGetReply while the monitor publishes.
EngineNext ==
    \/ \E sig \in Signatures, n \in 1..MaxTries : EngineCall(sig, n)
    \/ \E ok \in BOOLEAN : EngineSend(ok)
    \/ EnginePoll
    \/ \E f \in DeviceFrames : EnginePublish(f)

SpecEngine ==
    Init /\ [][EngineNext]_vars

\* The same, with the caller's thread scheduled: a send that can be made is
\* made (the write returns or fails) and the wait loop's sleep ends.  Nothing
\* is assumed of the monitor or of the device.
SpecEngineFair ==
    /\ Init /\ [][EngineNext]_vars
    /\ WF_vars(\E ok \in BOOLEAN : EngineSend(ok))
    /\ WF_vars(EnginePoll)

\* The monitor thread and the caller sharing the message container.
MboxNext ==
    \/ MbFrameComplete \/ MbMonitorAcquire \/ MbMonitorWrite1 \/ MbMonitorWrite2
    \/ MbMonitorRelease
    \/ MbRecvCall \/ MbReaderAcquire \/ MbReaderCopy1 \/ MbReaderCopy2
    \/ MbReaderClear \/ MbReaderRelease

SpecMailbox ==
    Init /\ [][MboxNext]_vars

\* Public calls on one driver object, in any order.
DriverNext ==
    \/ \E o \in InitializeOutcomes : Initialize(o)
    \/ \E o \in UninitializeOutcomes : Uninitialize(o)
    \/ \E o \in GetSickRangeOutcomes : GetSickRange(o)

SpecDriver ==
    Init /\ [][DriverNext]_vars

\* A caller requesting a data stream from the device, again and again.
StreamNext ==
    \/ \E login \in ExchangeOutcomes \cup {"rejected"}, o \in ExchangeOutcomes :
          ReqSetFormat(login, o)
    \/ \E o \in ExchangeOutcomes, st \in SickStatuses : ReqUpdateStatus(o, st)
    \/ \E o \in ExchangeOutcomes \cup {"rejected"} : ReqStartMeasuring(o)
    \/ \E expired \in BOOLEAN : ReqSleep(expired)
    \/ \E o \in ExchangeOutcomes : ReqStartStream(o)

SpecStream ==
    Init /\ [][StreamNext]_vars

\* A caller changing the device's configuration.
ConfigNext ==
    \/ \E req \in ConfigRequests, login \in ExchangeOutcomes \cup {"rejected"},
          o \in ExchangeOutcomes, status \in {"0", "1"}, rb \in ExchangeOutcomes,
          tokens \in ReadbackReplies :
          SetSickScanConfig(req, login, o, status, rb, tokens)
    \/ \E cmd \in {"LMDscandatacfg", "mEEwriteall", "Run"},
          login \in ExchangeOutcomes \cup {"rejected"},
          o \in ExchangeOutcomes, status \in {"0", "1"} :
          AuthorizedCommand(cmd, login, o, status)

SpecConfig ==
    Init /\ [][ConfigNext]_vars

\* A caller fetching scans through the four getters, in any order.
GetterNext ==
    \/ \E fn \in {"GetSickRange"} \cup RangeOverloads, reflect_opt \in ReflectOpts,
          o \in GetterOutcomes : GetMeasurements(fn, reflect_opt, o)
    \/ GetterStreamStopped

SpecGetter ==
    Init /\ [][GetterNext]_vars

\* MATLAB issuing commands to one of the bindings, in any order.
MexNext ==
    \/ \E b \in Bindings, args \in {"ok", "bad", "badBaud"}, unin \in MexOutcomes,
          o \in MexOutcomes, query \in MexOutcomes, unin2 \in MexOutcomes :
          initSick(b, args, unin, o, query, unin2)
    \/ \E b \in Bindings, args \in {"ok", "bad"}, o \in {"ok", "config", "throw"},
          unin \in MexOutcomes : setScanFreqAndRes(b, args, o, unin)
    \/ \E b \in Bindings, args \in {"ok", "bad"}, desired \in MexScanFormats,
          o_set \in MexOutcomes, o_get \in MexOutcomes, unin \in MexOutcomes :
          grabSickVals(b, args, desired, o_set, o_get, unin)
    \/ \E args \in {"ok", "bad"} : printSickInfo(args)
    \/ \E unin \in MexOutcomes : mexExit(unin)

SpecMex ==
    Init /\ [][MexNext]_vars

---------------------------------------------------------------------------
(* Properties of the LMS 1xx request/reply (SpecEngine)                    *)

\* C1: a _sendMessageAndGetReply call asking for n tries, during which the
\* monitor publishes nothing, ends with the timeout exception after exactly
\* n sends of the command; it never returns normally, and it never sends more
\* than n times.
C1_TimeoutAfterAllTries ==
    /\ (e_pc # "idle" => e_sends <= e_call.num_tries)
    /\ (e_pc = "done" /\ e_pubs = 0 /\ e_exc # "IOException") =>
           /\ e_exc = "Timeout"
           /\ e_sends = e_call.num_tries
           /\ ~e_recv.populated

\* A call with the most tries has timed out with nothing published.
C1_Witness ==
    /\ e_pc = "done"
    /\ e_pubs = 0
    /\ e_exc = "Timeout"
    /\ e_call.num_tries = MaxTries
    /\ e_sends = MaxTries

C14_CallTerminates ==
    /\ [](e_pc # "idle" => (e_sends <= e_call.num_tries /\ e_elapsed <= TimeoutPolls))
    /\ [](e_pc = "done" =>
            \/ e_exc = "none" /\ e_recv.populated
            \/ e_exc \in {"Timeout", "IOException"} /\ ~e_recv.populated)
    /\ (e_pc \in {"send", "wait"}) ~> (e_pc = "done")

\* A call with the most tries ended in a timeout while frames that did not
\* match kept arriving.
C14_Witness ==
    /\ e_pc = "done"
    /\ e_exc = "Timeout"
    /\ e_sends = MaxTries
    /\ e_dropped >= MaxTries

---------------------------------------------------------------------------
(* Properties of the shared message container (SpecMailbox)                *)

\* C3: the container holds one frame.  A read that finds a frame finds the
\* latest one the monitor has published, whatever was published before it and
\* not read; the frames successive reads return are ever later ones, so a
\* frame that was overwritten is never returned; and the read leaves the
\* container empty.
C3_LatestFrameWins ==
    /\ (mb_rpc \in {"clear", "release"} /\ mb_rmsg.populated) =>
           mb_rmsg.hi = mb_rlatest
    /\ (mb_rpc = "release" /\ mb_rmsg.populated) => ~mb_slot.populated
    /\ \A i \in 1..Len(mb_rlog) : \A j \in 1..Len(mb_rlog) :
           i < j => mb_rlog[i] < mb_rlog[j]

\* Two frames were published before the first read, which returned the second.
C3_Witness ==
    /\ Len(mb_rlog) = 1
    /\ mb_rlog[1] = 2
    /\ mb_rpc = "idle"

\* C4: the reader obtains no frame or one whole frame, never parts of two; the
\* lock is held by the monitor only while it stores a frame and by the reader
\* only while it copies and clears, so neither keeps the other waiting while
\* it scans or sleeps.
C4_SwapIsAtomic ==
    /\ (mb_rmsg.populated /\ mb_rpc \in {"clear", "release", "idle"}) =>
           mb_rmsg.hi = mb_rmsg.lo
    /\ (mb_lock = "monitor") <=> (mb_mpc \in {"write1", "write2", "release"})
    /\ (mb_lock = "reader") <=> (mb_rpc \in {"copy1", "copy2", "clear", "release"})

\* The reader holds a whole frame and the lock while the monitor, with the
\* next frame ready, waits for the lock.
C4_Witness ==
    /\ mb_rpc = "release"
    /\ mb_rmsg.populated
    /\ mb_rmsg.hi = mb_rmsg.lo
    /\ mb_mpc = "acquire"
    /\ mb_mcur > mb_rmsg.hi

---------------------------------------------------------------------------
(* Properties of the binary-family scan on a damaged frame (SpecCodec)     *)

\* C5: a frame with one bit inverted in its payload or its checksum is never
\* published; the scan that reads it ends in the bad-checksum exception and
\* leaves the message unpopulated.
C5_FlippedFrameRejected ==
    (wire # <<>> /\ wire[1].kind = "flipped") =>
        /\ pubLog = <<>>
        /\ ~mailbox.populated
        /\ (lastScan.io = "ok" /\ lastScan.avail = Len(wire[1].bytes)) =>
               /\ lastScan.exc = "BadChecksum"
               /\ ~lastScan.msg.populated
               /\ ~lastScan.published

\* A frame with a bit of its checksum inverted has been scanned and rejected.
C5_Witness ==
    /\ wire # <<>>
    /\ wire[1].kind = "flipped"
    /\ wire[1].len > SICK_LMS_MSG_HEADER_LEN + Len(wire[1].payload)
    /\ wire[1].payload # <<>>
    /\ lastScan.exc = "BadChecksum"
    /\ lastScan.avail = Len(wire[1].bytes)

\* The payloads of the valid frames among the segments w.
WireFrames(w) ==
    [i \in 1..Len(SelectSeq(w, LAMBDA seg : seg.kind = "frame")) |->
        SelectSeq(w, LAMBDA seg : seg.kind = "frame")[i].payload]

\* C15: a scan that ends in a checksum mismatch leaves the message container
\* cleared, publishes nothing, lets no exception out of
\* GetNextMessageFromDataStream and leaves the monitor running; the valid
\* frames that follow a damaged frame are all published, in their order.
C15_BadChecksumDiscarded ==
    /\ lastScan.exc = "BadChecksum" =>
           /\ ~lastScan.escaped
           /\ lastScan.msg = ClearedMessage
           /\ ~lastScan.published
           /\ monState = "Running"
    /\ (monState = "Running" /\ stream = <<>>) => pubLog = WireFrames(wire)

\* A valid frame was published after the damaged frame before it was dropped.
C15_Witness ==
    /\ Len(wire) = 2
    /\ wire[1].kind = "flipped"
    /\ lastScan.timedOutBefore = FALSE
    /\ lastScan.published
    /\ pubLog = <<wire[2].payload>>
    /\ monState = "Running"

\* C16: a scan during which tcdrain or a read fails hard ends with the
\* SickIOException thrown out of GetNextMessageFromDataStream; the monitor
\* stops and publishes nothing.  No other outcome of a scan stops the monitor.
C16_IOFailureIsFatal ==
    /\ (lastScan.count > 0 /\ lastScan.io \in {"drain", "read"}) =>
           /\ lastScan.exc = "IOException"
           /\ lastScan.escaped
           /\ ~lastScan.published
           /\ monState = "Stopped"
    /\ lastScan.exc = "IOException" => lastScan.escaped
    /\ monState = "Stopped" => lastScan.exc = "IOException"

\* The monitor was stopped by a failed read after it had published a frame.
C16_Witness ==
    /\ lastScan.io = "read"
    /\ monState = "Stopped"
    /\ pubLog # <<>>

---------------------------------------------------------------------------
(* Properties of the ASCII-family message container (SpecAscii)            *)

\* C6: parsing the bytes BuildMessage produced for a payload gives a populated
\* message with that payload and payload length, whose trailer is the end
\* marker.
C6_RoundTrip ==
    a_pc = "parsed" =>
        /\ a_parsed.populated
        /\ a_parsed.payload_length = Len(a_payload)
        /\ Lms1xxPayload(a_parsed) = a_payload
        /\ Lms1xxGetChecksum(a_parsed) = <<ETX>>

---------------------------------------------------------------------------
(* Properties of the binary-family monitor (SpecMonitor)                   *)

\* C7: a scan of a healthy transport holding enough bytes, none of the first
\* (max message length + header length) of which begins a start marker, ends
\* in the header timeout; that timeout does not leave the call, the monitor
\* thread keeps running and publishes nothing for it; and a scan that starts
\* at a valid frame after an earlier header timeout publishes that frame.
C7_HeaderTimeoutAbsorbed ==
    /\ (lastScan.io = "ok" /\ lastScan.noMarker
            /\ lastScan.avail >= SearchBound + 2) =>
           lastScan.exc = "HeaderTimeout"
    /\ lastScan.exc = "HeaderTimeout" =>
           /\ ~lastScan.escaped
           /\ monState = "Running"
           /\ ~lastScan.published
    /\ (lastScan.timedOutBefore /\ lastScan.io = "ok" /\ lastScan.head # {}
            /\ ~lastScan.overrun) =>
           /\ lastScan.published
           /\ pubLog # <<>>
           /\ pubLog[Len(pubLog)] \in lastScan.head

\* A frame was published by a scan that followed a header timeout.
C7_Witness ==
    /\ lastScan.timedOutBefore
    /\ lastScan.published
    /\ lastScan.head # {}
    /\ monState = "Running"

\* C8: when the transport has delivered only valid frames and runs of noise
\* bytes, and the running monitor has taken every byte, the frames published
\* are the frames delivered, in their order.
C8_FramesPublishedInOrder ==
    (/\ \A i \in 1..Len(wire) : wire[i].kind \in {"frame", "noise"}
     /\ monState = "Running"
     /\ stream = <<>>) =>
        pubLog = WireFrames(wire)

---------------------------------------------------------------------------
(* Properties of the LMS 1xx driver lifecycle (SpecDriver)                 *)

\* C9: Uninitialize called on a driver that is not initialized throws the I/O
\* exception, touches neither the socket nor the monitor nor the device, and
\* leaves the driver as it was; so does a second call right after one that
\* succeeded.
C9_UninitializeRefusedWhenNotInitialized ==
    (d_call = "Uninitialize" /\ ~d_pre.initialized) =>
        /\ d_exc = "IOException"
        /\ d_ops = <<>>
        /\ d_initialized = d_pre.initialized
        /\ d_streaming = d_pre.streaming
        /\ d_fd = d_pre.fd
        /\ d_openFds = d_pre.openFds
        /\ d_monitor = d_pre.monitor
        /\ d_monitors = d_pre.monitors

\* Uninitialize was refused right after an Uninitialize that succeeded.
C9_Witness ==
    /\ d_call = "Uninitialize"
    /\ d_exc = "IOException"
    /\ ~d_pre.initialized
    /\ d_pre.call = "Uninitialize"
    /\ d_pre.exc = "none"

\* C10: after a call of Initialize the driver is initialized exactly when the
\* call opened the connection, started the monitor and got the scan
\* configuration, that is, when it threw nothing.
C10_InitializedOnlyOnSuccess ==
    d_call = "Initialize" => (d_initialized <=> d_exc = "none")

\* C11: a first call of Initialize that fails leaves no socket open and no
\* monitor thread running.
C11_FailedInitializeReleasesResources ==
    (d_call = "Initialize" /\ d_calls = 1 /\ d_exc # "none") =>
        /\ d_openFds = 0
        /\ ~d_monitor

\* C12: after a call of Uninitialize on an initialized driver the driver is
\* not initialized, whether or not the call threw.
C12_UninitializeAlwaysClearsFlag ==
    (d_call = "Uninitialize" /\ d_pre.initialized) => ~d_initialized

\* The place of a step of Uninitialize in the order the claim gives.
UninitializeRank(op) ==
    CASE op = "stopStream" -> 1
      [] op = "stopMeas" -> 2
      [] op = "stopMonitor" -> 3
      [] op = "close" -> 4

\* C13: Uninitialize on an initialized driver takes its steps in this order:
\* stop the stream and stop measuring (when streaming, and before anything
\* else), stop the monitor, close the socket; the socket is closed only after
\* the monitor was stopped, and a call that threw nothing took them all.
C13_UninitializeOrder ==
    (d_call = "Uninitialize" /\ d_pre.initialized) =>
        /\ \A i \in 1..Len(d_ops) : \A j \in 1..Len(d_ops) :
               i < j => UninitializeRank(d_ops[i]) < UninitializeRank(d_ops[j])
        /\ d_pre.streaming => (d_ops # <<>> /\ d_ops[1] = "stopStream")
        /\ ~d_pre.streaming => \A i \in 1..Len(d_ops) : UninitializeRank(d_ops[i]) >= 3
        /\ (\E i \in 1..Len(d_ops) : d_ops[i] = "close") =>
               (\E i \in 1..Len(d_ops) : d_ops[i] = "stopMonitor")
        /\ d_exc = "none" =>
               d_ops = (IF d_pre.streaming THEN <<"stopStream", "stopMeas">> ELSE <<>>)
                       \o <<"stopMonitor", "close">>

\* A streaming driver was uninitialized without error.
C13_Witness ==
    /\ d_call = "Uninitialize"
    /\ d_pre.initialized
    /\ d_pre.streaming
    /\ d_exc = "none"
    /\ Len(d_ops) = 4

C20_FlagsWrittenByCallerOnly ==
    [][/\ (d_initialized' # d_initialized \/ d_streaming' # d_streaming) =>
              /\ d_calls' = d_calls + 1
              /\ monVars' = monVars
       /\ monVars' # monVars =>
              /\ d_initialized' = d_initialized
              /\ d_streaming' = d_streaming
       /\ (d_initialized' /\ ~d_initialized) =>
              (d_call' = "Initialize" /\ d_exc' = "none")
       /\ (~d_initialized' /\ d_initialized) =>
              (d_call' = "Uninitialize" /\ d_exc' = "none")
       /\ (d_streaming' /\ ~d_streaming) =>
              /\ d_call' = "GetSickRange"
              /\ d_ops' = <<"send", "recv">>
       /\ (~d_streaming' /\ d_streaming) =>
              /\ d_call' = "Uninitialize"
              /\ d_ops' # <<>>
              /\ d_ops'[1] = "stopStream"
              /\ Len(d_ops') >= 2
      ]_vars

\* The driver is initialized and streaming while the monitor has published a
\* frame.
C20_Witness ==
    /\ d_initialized
    /\ d_streaming
    /\ lastScan.published
    /\ pubLog # <<>>

\* C21: a public call that talks to the device, made on a driver that is not
\* initialized, ends with an I/O exception before anything is sent or read,
\* and leaves the flags and the cached scan configuration as they were.
C21_RefusedWhenNotInitialized ==
    (d_call \notin {"none", "Initialize"} /\ ~d_pre.initialized) =>
        /\ d_exc = "IOException"
        /\ d_ops = <<>>
        /\ d_initialized = d_pre.initialized
        /\ d_streaming = d_pre.streaming
        /\ d_config = d_pre.config
        /\ d_fd = d_pre.fd
        /\ d_monitor = d_pre.monitor

\* GetSickRangeAndReflect was refused on a driver that had been initialized,
\* configured and uninitialized again.
C21_Witness ==
    /\ d_call = "GetSickRangeAndReflect"
    /\ ~d_pre.initialized
    /\ d_pre.call = "Uninitialize"
    /\ d_config \in {"SetSickScanFreqAndRes", "SetSickScanArea"}
    /\ d_exc = "IOException"

\* C22: the header search of one scan reads at most (max message length +
\* header length) bytes, and it ends in the header timeout only if the bytes
\* it read hold no complete start marker.
C22_HeaderSearchBounded ==
    /\ lastScan.searched <= SearchBound
    /\ lastScan.exc = "HeaderTimeout" => ~lastScan.markerRead

\* C23: when the payload length read after the header is larger than
\* MESSAGE_MAX_LENGTH the call ends at once and normally: nothing more is
\* read, so the stream is left right after the length field; no message is
\* built, nothing is published, no exception is raised and the monitor runs on.
C23_OversizedLengthIgnored ==
    lastScan.length > MESSAGE_MAX_LENGTH =>
        /\ lastScan.exc = "none"
        /\ ~lastScan.escaped
        /\ lastScan.msg = ClearedMessage
        /\ ~lastScan.published
        /\ ~lastScan.overrun
        /\ lastScan.consumed = lastScan.searched + 2
        /\ lastScan.consumed <= lastScan.avail
        /\ monState = "Running"

\* A header announcing a payload longer than any message was scanned while
\* more bytes were waiting behind it.
C23_Witness ==
    /\ lastScan.length > MESSAGE_MAX_LENGTH
    /\ lastScan.avail > lastScan.consumed
    /\ stream # <<>>

\* C24: whatever payload length is read from the stream, a scan stores no
\* more payload bytes than payload_buffer holds: a length the scan accepts
\* is at most MESSAGE_PAYLOAD_MAX_LENGTH.
C24_PayloadFitsBuffer ==
    /\ ~lastScan.overrun
    /\ (lastScan.length >= 0 /\ PayloadLengthLegitimate(lastScan.length)) =>
           lastScan.length <= MESSAGE_PAYLOAD_MAX_LENGTH

---------------------------------------------------------------------------
(* Properties of the connection setup (SpecConnect)                        *)

\* The non-blocking connect() has not finished and the call waits for it.
ConnectInProgress(env) ==
    env.socket >= 0 /\ env.connect < 0 /\ env.errno = "EINPROGRESS"

\* C17: _setupConnection ends with a timeout exactly when the bounded wait
\* for the socket to become writable expires with no descriptor ready; every
\* other failure (socket(), a connect() error other than in-progress, a failed
\* wait, an unexpected descriptor, a failed getsockopt(), a pending socket
\* error) ends it with an I/O exception; it ends normally only when connect()
\* succeeded at once or the wait ended with the socket free of errors.
C17_ConnectOutcome ==
    c_setup.called =>
        /\ c_setup.exc \in {"none", "Timeout", "IOException"}
        /\ c_setup.exc = "Timeout" <=>
               (ConnectInProgress(c_setup.env) /\ c_setup.env.select = 0)
        /\ c_setup.exc = "none" <=>
               /\ c_setup.env.socket >= 0
               /\ \/ c_setup.env.connect >= 0
                  \/ /\ ConnectInProgress(c_setup.env)
                     /\ c_setup.env.select > 0
                     /\ c_setup.env.isset
                     /\ c_setup.env.getsockopt >= 0
                     /\ c_setup.env.valid_opt = 0

\* The wait for the connection ran out.
C17_Witness ==
    /\ c_setup.called
    /\ ConnectInProgress(c_setup.env)
    /\ c_setup.env.select = 0
    /\ c_setup.exc = "Timeout"

---------------------------------------------------------------------------
(* Further properties of the LMS 1xx request/reply (SpecEngine)            *)

\* C25: while _sendMessageAndGetReply waits, a round of the wait loop that
\* takes a frame not matching the expected signature out of the container
\* drops it: nothing is sent, nothing is returned, and the time the try has
\* used advances exactly as in a round that found the container empty, so
\* the try expires after the same number of rounds and the sends stay one
\* per try.
C25_MismatchKeepsTimeoutBudget ==
    [][/\ (e_pc = "wait" => e_sends = e_try + 1)
       /\ (/\ e_pc = "wait"
           /\ e_slot.populated
           /\ ~MatchesSignature(e_slot, e_call.expected)
           /\ e_slot' = EmptyFrame) =>
              /\ e_sends' = e_sends
              /\ e_recv' = e_recv
              /\ IF e_elapsed < TimeoutPolls
                 THEN /\ e_pc' = "wait"
                      /\ e_try' = e_try
                      /\ e_elapsed' = e_elapsed + 1
                      /\ e_exc' = e_exc
                 ELSE \/ /\ e_pc' = "send"
                         /\ e_try' = e_try + 1
                         /\ e_try < e_call.num_tries - 1
                      \/ /\ e_pc' = "done"
                         /\ e_exc' = "Timeout"
                         /\ e_try = e_call.num_tries - 1
      ]_vars

\* A try that has sent once has dropped a frame that did not match and has
\* used all of its time but the last round.
C25_Witness ==
    /\ e_pc = "wait"
    /\ e_sends = 1
    /\ e_dropped >= 1
    /\ e_elapsed = TimeoutPolls
    /\ ~e_slot.populated

---------------------------------------------------------------------------
(* Further properties of the driver lifecycle (SpecDriver)                 *)

\* The steps of a complete Initialize, in the order of lines 78, 83 and 88.
InitializeSteps == <<"socket", "connect", "startMonitor", "send">>

\* C26: the steps Initialize has taken are an initial part of: create the
\* socket, connect, start the buffer monitor, send the first command.  The
\* monitor is started only on a connected transport, a command is sent only
\* with the monitor running, and a step that fails is the last one taken.
C26_InitializeStepsOrdered ==
    d_call = "Initialize" =>
        /\ Len(d_ops) \in 1..Len(InitializeSteps)
        /\ d_ops = SubSeq(InitializeSteps, 1, Len(d_ops))
        /\ Len(d_ops) >= 3 => d_fd = "connected"
        /\ Len(d_ops) = 4 => (d_monitor /\ d_monitors > d_pre.monitors)
        /\ d_fd = "invalid" => d_ops = <<"socket">>
        /\ d_fd = "unconnected" => d_ops = <<"socket", "connect">>
        /\ d_exc = "ThreadException" =>
               (d_ops = <<"socket", "connect", "startMonitor">>
                /\ d_monitors = d_pre.monitors)
        /\ d_exc = "none" => d_ops = InitializeSteps

\* Initialize ended at each of its steps: at the connect, at the monitor's
\* start (this state), and after the command was sent.
C26_Witness ==
    /\ d_call = "Initialize"
    /\ d_exc = "ThreadException"
    /\ d_fd = "connected"
    /\ d_ops = <<"socket", "connect", "startMonitor">>


\* C27: _sick_streaming turns true only in a scan request whose
\* start-stream command was answered (the call went on to receive); a
\* request that ends in a timeout or a write error leaves it false.  In
\* Uninitialize it is false as soon as the stop-stream frame has been
\* written, also when the exchange that follows it fails, and it stays true
\* only if that write itself failed.
C27_StreamingFollowsStartAndStop ==
    /\ (d_streaming /\ ~d_pre.streaming) =>
           /\ d_call = "GetSickRange"
           /\ d_pre.initialized
           /\ d_ops = <<"send", "recv">>
    /\ (d_call = "GetSickRange" /\ d_pre.initialized /\ ~d_pre.streaming
        /\ d_ops = <<"send">>) =>
           /\ ~d_streaming
           /\ d_exc \in {"TimeoutException", "IOException"}
    /\ (~d_streaming /\ d_pre.streaming) =>
           /\ d_call = "Uninitialize"
           /\ d_ops # <<>>
           /\ d_ops[1] = "stopStream"
           /\ Len(d_ops) >= 2
    /\ (d_call = "Uninitialize" /\ d_pre.initialized /\ d_pre.streaming) =>
           /\ d_streaming <=> d_ops = <<"stopStream">>
           /\ d_streaming => d_exc = "IOException"
           /\ d_exc = "TimeoutException" => ~d_streaming

\* Uninitialize on a streaming driver wrote the stop-stream frame and then
\* failed in the exchange that follows: the flag is false, the call threw.
C27_Witness ==
    /\ d_call = "Uninitialize"
    /\ d_pre.streaming
    /\ ~d_streaming
    /\ d_exc = "TimeoutException"
    /\ d_ops = <<"stopStream", "stopMeas">>

---------------------------------------------------------------------------
(* Further properties of the connection setup (SpecConnect)                *)

\* C28: when _setupConnection returns normally, whether connect() succeeded
\* at once or the connection was awaited with select(), the socket is in
\* blocking mode and the switch back to it is the last thing the call did.
\* In such a call the socket is in non-blocking mode exactly from connect()
\* to that switch: it is created blocking, and connect(), select() and
\* getsockopt() are made with it non-blocking.
C28_BlockingAfterOpen ==
    (c_setup.called /\ c_setup.exc = "none") =>
        /\ c_setup.blocking
        /\ c_setup.calls # <<>>
        /\ c_setup.calls[Len(c_setup.calls)] = "setBlockingIO"
        /\ \A i \in 1..Len(c_setup.calls) :
               NonBlockingAt(c_setup.calls, i) <=>
                   c_setup.calls[i] \in {"connect", "select", "getsockopt",
                                         "setBlockingIO"}
        /\ c_setup.env.connect >= 0 =>
               c_setup.calls = <<"socket", "setNonBlockingIO", "connect",
                                 "setBlockingIO">>
        /\ c_setup.env.connect < 0 =>
               c_setup.calls = <<"socket", "setNonBlockingIO", "connect", "select",
                                 "getsockopt", "setBlockingIO">>

\* An open succeeded at once, with connect() returning 0, and left the
\* socket blocking.
C28_Witness ==
    /\ c_setup.called
    /\ c_setup.exc = "none"
    /\ c_setup.env.connect >= 0
    /\ c_setup.blocking
    /\ Len(c_setup.calls) = 4

---------------------------------------------------------------------------
(* Further properties of the LMS 2xx buffer monitor (SpecMonitor)          *)

\* C29: a scan that has read a start marker and then runs out of bytes, in
\* the length field, the payload or the checksum, ends in the byte timeout:
\* the timeout does not leave the call, the message stays unpopulated, the
\* monitor keeps running and publishes nothing.  A scan that publishes has
\* read a whole frame: marker, length field, payload and checksum.
C29_TimeoutInsideFrameAbsorbed ==
    /\ (lastScan.exc = "ReadTimeout" /\ lastScan.markerRead /\ ~lastScan.overrun) =>
           /\ ~lastScan.escaped
           /\ lastScan.msg = ClearedMessage
           /\ ~lastScan.published
           /\ monState = "Running"
           /\ lastScan.consumed = lastScan.avail
    /\ (lastScan.io = "ok" /\ lastScan.markerRead /\ lastScan.length >= 0
        /\ lastScan.length <= MESSAGE_PAYLOAD_MAX_LENGTH
        /\ lastScan.avail < lastScan.searched + 2 + lastScan.length + 2) =>
           lastScan.exc = "ReadTimeout"
    /\ (lastScan.published /\ ~lastScan.overrun) =>
           /\ lastScan.length >= 0
           /\ lastScan.avail >= lastScan.searched + 2 + lastScan.length + 2
           /\ lastScan.consumed = lastScan.searched + 2 + lastScan.length + 2

\* The line went quiet inside the checksum of a frame that followed a
\* published one: the scan ended in the byte timeout, nothing more was
\* published.
C29_Witness ==
    /\ lastScan.exc = "ReadTimeout"
    /\ lastScan.markerRead
    /\ lastScan.length = PayloadMaxLen
    /\ lastScan.avail = lastScan.searched + 2 + lastScan.length + 1
    /\ ~lastScan.published
    /\ Len(pubLog) = 1
    /\ stream = <<>>

---------------------------------------------------------------------------
(* Further properties of the ASCII-family message container (SpecAscii)    *)

\* C30: the message BuildMessage produces for a payload is STX, the payload
\* bytes, ETX and nothing else: its length is the payload length plus two,
\* its first byte is STX, its last byte is ETX, and the payload starts at
\* the second byte.
C30_FrameIsStxPayloadEtx ==
    a_pc \in {"built", "parsed"} =>
        /\ a_built.populated
        /\ a_built.payload_length = Len(a_payload)
        /\ a_built.message_length = Len(a_payload) + 2
        /\ Len(a_built.buffer) = a_built.message_length
        /\ a_built.buffer[1] = STX
        /\ a_built.buffer[a_built.message_length] = ETX
        /\ SubSeq(a_built.buffer, 2, 1 + Len(a_payload)) = a_payload
        /\ a_built.buffer = <<STX>> \o a_payload \o <<ETX>>

---------------------------------------------------------------------------
(* Invariants of the driver object (SpecDriver)                            *)

\* C37: whenever _sick_initialized is true, the socket is connected and the
\* buffer monitor is running; no failed call leaves the flag set over a
\* stopped monitor or over a socket that is not connected.
C37_InitializedMeansConnectedAndListening ==
    d_initialized => (d_fd = "connected" /\ d_monitor)

\* C38: a driver object owns at most one open socket and at most one running
\* buffer monitor, whatever Initialize and Uninitialize calls were made on
\* it, repeated and failed ones included.
C38_AtMostOneSocketAndMonitor ==
    d_openFds <= 1 /\ d_monitors <= 1

---------------------------------------------------------------------------
(* Properties of the stream request (SpecStream)                           *)

\* The number of times command c occurs in the sequence s.
Occurrences(s, c) == Cardinality({i \in 1..Len(s) : s[i] = c})

\* C31: a stream request sends its commands in the order: login and scan
\* data format, status queries (with at most one start-measuring command
\* among them), start-stream.  The start-stream command is sent only with
\* READY_FOR_MEASUREMENT as the last status read, it is the last command of
\* the request, and a request that failed earlier has not sent it.
C31_StreamRequestOrdered ==
    /\ q_req.pc \in {"status", "startmeas", "sleep", "start"} =>
           /\ Len(q_req.sent) >= 2
           /\ q_req.sent[1] = "SetAccessMode"
           /\ q_req.sent[2] = "LMDscandatacfg"
           /\ \A i \in 3..Len(q_req.sent) : q_req.sent[i] \in {"STlms", "LMCstartmeas"}
    /\ q_req.pc = "start" =>
           /\ q_req.status = "READY_FOR_MEASUREMENT"
           /\ q_req.sent[Len(q_req.sent)] = "STlms"
    /\ Occurrences(q_req.sent, "LMDscandata") > 0 =>
           /\ q_req.pc = "done"
           /\ q_req.status = "READY_FOR_MEASUREMENT"
           /\ Occurrences(q_req.sent, "LMDscandata") = 1
           /\ q_req.sent[Len(q_req.sent)] = "LMDscandata"
           /\ q_req.sent[Len(q_req.sent) - 1] = "STlms"
           /\ q_req.sent[2] = "LMDscandatacfg"
    /\ (q_req.pc = "done" /\ q_req.exc = "none") =>
           Occurrences(q_req.sent, "LMDscandata") = 1
    /\ (q_req.pc = "done" /\ Len(q_req.sent) < 3) => q_req.exc # "none"

\* A request started the stream after it had told the device to start
\* measuring and had waited for it to become ready.
C31_Witness ==
    /\ q_req.pc = "done"
    /\ q_req.exc = "none"
    /\ q_req.sent[Len(q_req.sent)] = "LMDscandata"
    /\ Occurrences(q_req.sent, "LMCstartmeas") = 1
    /\ q_req.elapsed > 0

\* C32: _checkForMeasuringStatus sends the start-measuring command at most
\* once, and not at all when the first status read is
\* READY_FOR_MEASUREMENT; the call ends by returning with that status read
\* last, or by throwing a timeout or the error of a failed exchange, after
\* no more rounds than fit in the allowed time.
C32_CheckForMeasuringStatusEnds ==
    /\ Occurrences(q_req.sent, "LMCstartmeas") <= 1
    /\ q_req.first = "READY_FOR_MEASUREMENT" =>
           Occurrences(q_req.sent, "LMCstartmeas") = 0
    /\ q_req.elapsed <= StatusPolls + 1
    /\ q_req.pc = "start" => q_req.status = "READY_FOR_MEASUREMENT"
    /\ q_req.pc # "terminated"
    /\ q_req.exc \in {"none", "TimeoutException", "IOException"}

---------------------------------------------------------------------------
(* Properties of the configuration commands (SpecConfig)                   *)

ConfigCommands == {"mLMPsetscancfg", "LMDscandatacfg", "mEEwriteall", "Run"}

\* C33: a configuration command is sent only as the second frame of its
\* operation, right after a login whose reply reported success; when the
\* login is rejected the login frame is the only one sent and the operation
\* ends with the I/O exception, and when the login exchange fails the
\* command is not sent either.
C33_ConfigCommandNeedsLogin ==
    /\ \A i \in 1..Len(k_cfg.sent) :
          k_cfg.sent[i] \in ConfigCommands =>
              /\ i = 2
              /\ k_cfg.sent[1] = "SetAccessMode"
              /\ k_cfg.login = "ok"
    /\ k_cfg.login = "rejected" =>
          /\ k_cfg.sent = <<"SetAccessMode">>
          /\ k_cfg.exc = "IOException"
    /\ k_cfg.login \in {"timeout", "io"} =>
          /\ k_cfg.sent = <<"SetAccessMode">>
          /\ k_cfg.exc = ExchangeException(k_cfg.login)
    /\ k_cfg.login = "ok" =>
          (Len(k_cfg.sent) >= 2 /\ k_cfg.sent[2] \in ConfigCommands)

\* The login of a write to the EEPROM was rejected: only the login frame
\* went out.
C33_Witness ==
    /\ k_cfg.call = "mEEwriteall"
    /\ k_cfg.login = "rejected"
    /\ k_cfg.sent = <<"SetAccessMode">>
    /\ k_cfg.exc = "IOException"

\* C34: _setSickScanConfig called with a start angle not below the stop
\* angle, or with an angle outside -450000..2250000, throws the
\* configuration exception with no frame sent, the login included, and with
\* the cached scan configuration as it was.
C34_InvalidScanAreaRefused ==
    (/\ k_cfg.call = "setSickScanConfig"
     /\ \/ k_cfg.req.start >= k_cfg.req.stop
        \/ k_cfg.req.start < -450000 \/ k_cfg.req.start > 2250000
        \/ k_cfg.req.stop < -450000 \/ k_cfg.req.stop > 2250000) =>
        /\ k_cfg.exc = "ConfigException"
        /\ k_cfg.sent = <<>>
        /\ k_cfg.login = "none"
        /\ k_cfg.config = k_cfg.pre

\* A request with equal start and stop angle, both allowed, was refused
\* after an earlier request had changed the cached configuration.
C34_Witness ==
    /\ k_cfg.call = "setSickScanConfig"
    /\ k_cfg.req.start = k_cfg.req.stop
    /\ k_cfg.req.start = 0
    /\ k_cfg.exc = "ConfigException"
    /\ k_cfg.sent = <<>>
    /\ k_cfg.config # FactoryConfig

\* C35: the cached scan configuration changes only in a call that received
\* the read-back reply and parsed its four fields, and then it holds the
\* four values of the reply; a rejected set command, a timeout or a reply
\* that cannot be parsed leaves it as it was; the values asked for are not
\* stored.
C35_CacheFollowsReadback ==
    /\ k_cfg.config # k_cfg.pre =>
          /\ k_cfg.call = "setSickScanConfig"
          /\ k_cfg.exc = "none"
          /\ k_cfg.readback
          /\ Len(k_cfg.tokens) = 5
          /\ \A i \in {1, 3, 4, 5} : k_cfg.tokens[i].kind = "hex"
          /\ k_cfg.config = [freq |-> k_cfg.tokens[1].val, res |-> k_cfg.tokens[3].val,
                             start |-> k_cfg.tokens[4].val, stop |-> k_cfg.tokens[5].val]
    /\ k_cfg.exc # "none" => k_cfg.config = k_cfg.pre
    /\ (k_cfg.readback /\ \E i \in {1, 3, 4, 5} :
            i > Len(k_cfg.tokens) \/ k_cfg.tokens[i].kind # "hex") =>
          k_cfg.config = k_cfg.pre


---------------------------------------------------------------------------
(* Properties of the measurement getters (SpecGetter)                      *)

\* C36: whenever a measurement getter reads a stream frame, the scan data
\* format active on the device is the format that getter parses: its
\* distance channels and the caller's reflectivity option.
C36_GetterReadsItsOwnFormat ==
    (g_get.read /\ g_get.call \in {"GetSickRange"} \cup RangeOverloads) =>
        g_get.format = ParsedFormat(g_get.call, g_get.opt)


---------------------------------------------------------------------------
(* Properties of the MATLAB bindings (SpecMex)                             *)

\* C39: after any sequence of commands the global driver pointer is either
\* null, with no driver object alive, or refers to the one driver object
\* alive, which is initialized; a failed init or grab leaves it null, and so
\* does the exit callback, whatever Uninitialize throws.
C39_PointerNullOrOneLiveDriver ==
    /\ \/ (m_mex.sick = "NULL" /\ m_mex.live = 0)
       \/ (m_mex.sick = "object" /\ m_mex.live = 1 /\ m_mex.initialized)
    /\ (m_mex.cmd \in {"init", "grab"} /\ m_mex.err = "driver") => m_mex.sick = "NULL"
    /\ m_mex.cmd = "exit" => m_mex.sick = "NULL"

\* An init on a binding that held an initialized driver has deleted it,
\* although its Uninitialize threw, and holds a new one.
C39_Witness ==
    /\ m_mex.cmd = "init"
    /\ m_mex.err = "none"
    /\ m_mex.cleared = "threw"
    /\ m_mex.sick = "object"
    /\ m_mex.live = 1

\* C40: in the LMS 1xx binding a grab that reads measurements reads them
\* from a driver object on which the remembered scan format, the one
\* requested, has been set.
C40_GrabReadsInRememberedFormat ==
    (m_mex.binding = "lms1xx" /\ m_mex.cmd = "grab" /\ m_mex.read) =>
        (m_mex.sick = "object" => m_mex.set_format = m_mex.curr_scan_format)

=============================================================================
